---- MODULE Spec2Model ----
(***************************************************************************)
(* State-machine model of the SpinningCubes OpenXR example                 *)
(* (examples/SpinningCubes/main.c): the main loop, the session event       *)
(* handler HandleXREvents, the swapchain pool (CreateSwapchains, Cleanup)   *)
(* and the per-tick frame protocol RenderFrame.                             *)
(*                                                                         *)
(* The compositor (OpenXR runtime) is the environment.  It keeps the       *)
(* session lifecycle of the OpenXR specification (IDLE -> READY ->         *)
(* running -> STOPPING -> IDLE -> READY | EXITING, LOSS_PENDING from       *)
(* anywhere), queues the events the program polls, and chooses the result  *)
(* of every call the program makes.                                        *)
(*                                                                         *)
(* C arrays are 0-based: view i of the program is element i+1 of the       *)
(* sequences below.  The null handle is 0.                                 *)
(***************************************************************************)
EXTENDS Integers, Sequences, FiniteSets, TLC

\* ----------------------------------------------------------------- bounds
MaxViews  == 2      \* largest view count the runtime reports
MaxEvents == 3      \* events the compositor posts during a run
MaxIter   == 4      \* main-loop iterations that are started
MaxSyncs  == 3      \* XR_Input_Sync calls on one input state

\* ------------------------------------------------------ program constants
NUM_CUBES == 5
XR_NULL_HANDLE == 0

VARIABLES
    \* --- program state (globals of main.c and the position of main)
    pc,                 \* where main() is
    gpuDevice,          \* gpuDevice != NULL
    xrFunctionsLoaded,  \* the pfn_xr* pointers are loaded
    xrSession,          \* xrSession != XR_NULL_HANDLE
    xrLocalSpace,       \* xrLocalSpace != XR_NULL_HANDLE
    xrSessionRunning,
    xrShouldQuit,
    vrSwapchains,       \* [null, sc]: the pointer is NULL, or sc[i+1] is vrSwapchains[i].swapchain
    viewCount,
    pipeline, vertexBuffer, indexBuffer,   \* pointer != NULL
    animTime,           \* in units of the 0.011f increment
    exitCode,           \* return value of main, -1 while running
    \* --- compositor state
    rtState,            \* session lifecycle state kept by the runtime
    rtViews,            \* number of views of the system's stereo configuration
    evQueue,            \* events not yet polled
    nPosted,            \* events posted so far
    liveSwapchains,     \* swapchain handles created and not destroyed
    nextHandle,         \* next fresh swapchain handle
    held,               \* swapchain handles with an acquired, unreleased image
    \* --- history of the calls the program made
    iter,               \* main-loop iterations started
    tick,               \* the RenderFrame call of the current iteration: calls issued, layer submitted
    sessLog,            \* xrBeginSession / xrEndSession calls in order
    openFrames,         \* successful xrBeginFrame calls minus xrEndFrame calls over the run
    lastCreate,         \* the latest CreateSwapchains call
    nPoolCreations,     \* CreateSwapchains calls that created a compositor swapchain
    lastReady,          \* the latest session-ready event handled
    quitEvt,            \* the first exiting / loss-pending event handled
    lateCalls,          \* compositor calls (not Cleanup's) issued after quitEvt
    destroyLog,         \* swapchain handles passed to destroy by Cleanup
    cleanups,           \* number of Cleanup calls
    \* --- the controller-input layer (xr_input.c) and its caller
    inputState,         \* the caller's XR_InputState pointer and the object behind it
    allocated,          \* XR_InputState objects allocated and not freed
    createRet,          \* what XR_Input_Create returned: "none" before the call
    createCall,         \* the results the XR_Input_Create call was given
    syncLog,            \* per XR_Input_Sync call on the object: result and cached buttons
    nullSyncs,          \* return values of XR_Input_Sync(NULL)
    \* --- one XR_Input_LocatePose call
    poseCall,           \* arguments and compositor results
    poseRet,            \* "pending", then the return value
    outPose,            \* the caller's pose variable
    outVelocityType,    \* type field of the caller's velocity struct
    \* --- one call of a matrix function
    mathCall,           \* function and arguments
    mathDone,           \* the call has returned
    mathOut,            \* the matrix returned
    \* --- one SuggestBindingsForProfile call
    bindCall,           \* the profile passed and the runtime's results
    bindPc,             \* position in the function
    bindHand,           \* loop variable hand
    bindBlock,          \* the if-block of the loop body that runs next
    bindings,           \* the local array: a slot is Unwritten or a binding
    bindingCount,
    bindOverrun,        \* a write went past the end of the array
    suggested,          \* what xrSuggestInteractionProfileBindings was given
    bindRet             \* "pending", then the return value

mainVars == << pc, gpuDevice, xrFunctionsLoaded, xrSession, xrLocalSpace,
           xrSessionRunning, xrShouldQuit, vrSwapchains, viewCount,
           pipeline, vertexBuffer, indexBuffer, animTime, exitCode,
           rtState, rtViews, evQueue, nPosted, liveSwapchains,
           nextHandle, held,
           iter, tick, sessLog, openFrames, lastCreate,
           nPoolCreations, lastReady, quitEvt, lateCalls, destroyLog,
           cleanups >>
inputVars == << inputState, allocated, createRet, createCall, syncLog, nullSyncs >>
poseVars == << poseCall, poseRet, outPose, outVelocityType >>
mathVars == << mathCall, mathDone, mathOut >>
bindVars == << bindCall, bindPc, bindHand, bindBlock, bindings, bindingCount,
              bindOverrun, suggested, bindRet >>
auxVars == << inputVars, poseVars, mathVars, bindVars >>
vars == << mainVars, auxVars >>

progVars == << gpuDevice, xrFunctionsLoaded, xrSession, xrLocalSpace,
               xrSessionRunning, xrShouldQuit, vrSwapchains, viewCount,
               pipeline, vertexBuffer, indexBuffer, animTime, exitCode >>
poolVars == << vrSwapchains, viewCount, pipeline, vertexBuffer, indexBuffer >>
rtVars   == << rtState, rtViews, evQueue, nPosted, liveSwapchains,
               nextHandle, held >>
frameHist == << tick, openFrames >>
sessHist  == << sessLog, lastCreate, nPoolCreations, lastReady >>

\* ------------------------------------------------------------- helpers
NullPool == [null |-> TRUE, sc |-> << >>]
NoTick == [iter |-> 0, running |-> FALSE, calls |-> << >>,
           layerCount |-> 0, layerViewCount |-> 0, populated |-> {},
           shouldRender |-> FALSE, viewStateValid |-> FALSE, streak |-> 0]
NoCreate == [ret |-> -1, failedView |-> -1, made |-> {}]
NoReady == [before |-> FALSE, beginOk |-> FALSE,
            poolFailed |-> FALSE, after |-> FALSE]
NoQuitEvt == [seen |-> FALSE, iter |-> 0]

\* One call of the program into the compositor or the GPU layer.
Call(op, view, ok, arg) == [op |-> op, view |-> view, ok |-> ok, arg |-> arg]

\* Number of calls in the log s that satisfy P.
Count(s, P(_)) == Cardinality({ k \in 1..Len(s) : P(s[k]) })

Ops(s) == { s[k].op : k \in 1..Len(s) }

\* ======================================================== xr_input.c
\* The controller-input layer: one XR_InputState object owned by the caller,
\* created by XR_Input_Create, refreshed by XR_Input_Sync and read by the
\* query functions.  Bool arrays are functions on the hand and button
\* indexes; a pointer is NULL or the address of the one state object.
NULL == 0
StateAddr == 1
XR_HAND_LEFT == 0
XR_HAND_RIGHT == 1
XR_HAND_COUNT == 2
XR_BUTTON_COUNT == 9
XR_POSE_GRIP == 0
XR_POSE_AIM == 1
XR_POSE_PALM == 2
XR_POSE_COUNT == 3
Hands == 0..(XR_HAND_COUNT - 1)
Buttons == 0..(XR_BUTTON_COUNT - 1)

NoButtons == [ h \in Hands |-> [ b \in Buttons |-> FALSE ] ]

\* calloc(1, sizeof(XR_InputState)): every field zero.
ZeroController ==
    [ hand |-> 0, active |-> FALSE, gripSpace |-> XR_NULL_HANDLE,
      aimSpace |-> XR_NULL_HANDLE, _state |-> NULL ]
ZeroState ==
    [ null |-> FALSE, actionSet |-> XR_NULL_HANDLE,
      buttonActions |-> [ b \in Buttons |-> XR_NULL_HANDLE ],
      controllers |-> [ h \in Hands |-> ZeroController ],
      prevButtons |-> NoButtons, currButtons |-> NoButtons ]
\* The caller's pointer when it holds no object.
NullState == [ ZeroState EXCEPT !.null = TRUE ]

\* Handles the compositor hands out.
ActionSetHandle == 50
ActionHandle(b) == 100 + b
SpaceHandle(h, pose) == 10 + 2 * h + pose

\* The results the allocator and the compositor give to one XR_Input_Create
\* call: which button actions are created, how many interaction profiles
\* accept their bindings, which hand spaces are created.
ButtonActionResults ==
    { Buttons, {}, Buttons \ { 0 } }
SpaceResults ==
    { [ h \in Hands |-> { XR_POSE_GRIP, XR_POSE_AIM } ],
      [ h \in Hands |-> {} ],
      [ h \in Hands |-> IF h = XR_HAND_LEFT THEN { XR_POSE_AIM }
                        ELSE { XR_POSE_GRIP, XR_POSE_AIM } ] }
\* The call that is not made: every result left at failure.
NoCreateCall ==
    [ allocOk |-> FALSE, actionSetOk |-> FALSE, actions |-> {},
      profilesBound |-> 0, spaces |-> [ h \in Hands |-> {} ] ]
InputCreateResults ==
    { r \in [ allocOk : BOOLEAN, actionSetOk : BOOLEAN,
              actions : ButtonActionResults, profilesBound : 0..1,
              spaces : SpaceResults ] :
        \* the result of a call that is not made is left at failure
        /\ ~r.allocOk => ~r.actionSetOk
        /\ ~r.actionSetOk => ( /\ r.actions = {}
                               /\ r.profilesBound = 0
                               /\ r.spaces = [ h \in Hands |-> {} ] )
        \* a binding suggestion names the actions: with none created the
        \* compositor accepts no profile
        /\ r.actions = {} => r.profilesBound = 0 }

\* state->controllers[hand].hand = hand;  state->controllers[hand]._state = state;
ControllerLinks(c, h) == [ c EXCEPT !.hand = h, !._state = StateAddr ]

\* The hand-space loop of XR_Input_Create for one hand.
CreatedController(r, h) ==
    ControllerLinks(
        [ ZeroController EXCEPT
            !.gripSpace = IF XR_POSE_GRIP \in r.spaces[h]
                          THEN SpaceHandle(h, XR_POSE_GRIP) ELSE XR_NULL_HANDLE,
            !.aimSpace = IF XR_POSE_AIM \in r.spaces[h]
                         THEN SpaceHandle(h, XR_POSE_AIM) ELSE XR_NULL_HANDLE ],
        h)

\* if (xrCreateActionSet(...) != XR_SUCCESS) { free(state); return NULL; }
\* whether the state object is freed on that path
ActionSetFailFrees_Skipped == FALSE
ActionSetFailFrees == TRUE

\* XR_Input_Create: the pointer it returns and the objects left allocated.
XR_Input_Create(r) ==
    IF ~r.allocOk THEN [ ret |-> NullState, allocated |-> 0 ]
    ELSE IF ~r.actionSetOk
    THEN [ ret |-> NullState,
           allocated |-> IF ActionSetFailFrees THEN 0 ELSE 1 ]
    ELSE [ ret |-> [ ZeroState EXCEPT
                       !.actionSet = ActionSetHandle,
                       !.buttonActions =
                           [ b \in Buttons |-> IF b \in r.actions
                                               THEN ActionHandle(b)
                                               ELSE XR_NULL_HANDLE ],
                       !.controllers =
                           [ h \in Hands |-> CreatedController(r, h) ] ],
           allocated |-> 1 ]

\* XrActionSet XR_Input_GetActionSet(state)
XR_Input_GetActionSet(st) ==
    IF ~st.null THEN st.actionSet ELSE XR_NULL_HANDLE

\* The results the compositor gives to one XR_Input_Sync call: the result of
\* xrSyncActions, the pose action's isActive per hand, and for a button of a
\* hand the result of xrGetActionStateBoolean with the isActive and
\* currentState it reports.
Pressed  == [ getOk |-> TRUE,  isActive |-> TRUE,  currentState |-> TRUE ]
Released == [ getOk |-> TRUE,  isActive |-> TRUE,  currentState |-> FALSE ]
Inactive == [ getOk |-> TRUE,  isActive |-> FALSE, currentState |-> TRUE ]
GetFailed == [ getOk |-> FALSE, isActive |-> TRUE,  currentState |-> TRUE ]
ButtonReads == { Pressed, Released, Inactive, GetFailed }
\* The buttons whose reading varies; every other button reads released.
TrackedPairs == { << XR_HAND_LEFT, 0 >>, << XR_HAND_RIGHT, XR_BUTTON_COUNT - 1 >> }
SyncResults ==
    { r \in [ ok : BOOLEAN, active : [ Hands -> BOOLEAN ],
              read : [ TrackedPairs -> ButtonReads ] ] :
        \* the result of a call that is not made is left at failure
        ~r.ok => ( /\ r.active = [ h \in Hands |-> FALSE ]
                   /\ r.read = [ p \in TrackedPairs |-> GetFailed ] ) }
ReadOf(r, h, b) ==
    IF << h, b >> \in TrackedPairs THEN r.read[<< h, b >>] ELSE Released

\* memcpy(state->prevButtons, state->currButtons, sizeof(state->prevButtons));
SavePrevious_Skipped(st) == st
SavePrevious(st) == [ st EXCEPT !.prevButtons = st.currButtons ]

\* The cached value of one button after a successful xrSyncActions.
CachedButton(st, r, h, b) ==
    IF st.buttonActions[b] = XR_NULL_HANDLE THEN FALSE
    ELSE IF ReadOf(r, h, b).getOk
    THEN ReadOf(r, h, b).isActive /\ ReadOf(r, h, b).currentState
    ELSE FALSE

\* if (result != XR_SUCCESS) return false;  the state left by that path
SyncFailure_ClearsCurrent(st) == [ st EXCEPT !.currButtons = NoButtons ]
SyncFailure(st) == st

\* The update loop after a successful xrSyncActions.
SyncUpdate(st, r) ==
    [ st EXCEPT
        !.controllers = [ h \in Hands |->
                            [ st.controllers[h] EXCEPT !.active = r.active[h] ] ],
        !.currButtons = [ h \in Hands |->
                            [ b \in Buttons |-> CachedButton(st, r, h, b) ] ] ]

\* XR_Input_Sync: its return value and the state it leaves.
XR_Input_Sync(st, r) ==
    IF st.null THEN [ ret |-> FALSE, st |-> st ]
    ELSE IF ~r.ok THEN [ ret |-> FALSE, st |-> SyncFailure(SavePrevious(st)) ]
    ELSE [ ret |-> TRUE, st |-> SyncUpdate(SavePrevious(st), r) ]

\* A controller pointer: NULL, or the controller struct it points to.
NullController == [ null |-> TRUE, c |-> ZeroController ]
ControllerAt(c) == [ null |-> FALSE, c |-> c ]

\* XR_Controller *XR_Input_GetController(state, hand)
XR_Input_GetController(st, hand) ==
    IF st.null \/ hand < 0 \/ hand >= XR_HAND_COUNT THEN NullController
    ELSE ControllerAt(st.controllers[hand])

\* if (!controller || !controller->_state || button >= XR_BUTTON_COUNT) return false;
RejectQuery_NoStateTest(ctl, button) ==
    ctl.null \/ button >= XR_BUTTON_COUNT
RejectQuery(ctl, button) ==
    ctl.null \/ ctl.c._state = NULL \/ button >= XR_BUTTON_COUNT

\* bool XR_Input_GetButton(controller, button), reading the object st that
\* controller->_state points to
XR_Input_GetButton(st, ctl, button) ==
    IF RejectQuery(ctl, button) THEN FALSE
    ELSE st.currButtons[ctl.c.hand][button]

\* bool XR_Input_GetButtonDown(controller, button)
XR_Input_GetButtonDown(st, ctl, button) ==
    IF RejectQuery(ctl, button) THEN FALSE
    ELSE st.currButtons[ctl.c.hand][button]
         /\ ~st.prevButtons[ctl.c.hand][button]

\* bool XR_Input_GetButtonUp(controller, button)
XR_Input_GetButtonUp_PreviousOnly(st, ctl, button) ==
    IF RejectQuery(ctl, button) THEN FALSE
    ELSE st.prevButtons[ctl.c.hand][button]
XR_Input_GetButtonUp(st, ctl, button) ==
    IF RejectQuery(ctl, button) THEN FALSE
    ELSE ~st.currButtons[ctl.c.hand][button]
         /\ st.prevButtons[ctl.c.hand][button]

\* --- the caller of the input layer
InputInit ==
    /\ inputState = NullState /\ allocated = 0 /\ createRet = "none"
    /\ createCall = NoCreateCall
    /\ syncLog = << >> /\ nullSyncs = {}

\* state = XR_Input_Create(instance, session), called once.
InputCreate ==
    /\ createRet = "none"
    /\ \E r \in InputCreateResults :
         LET c == XR_Input_Create(r) IN
         /\ inputState' = c.ret
         /\ allocated' = allocated + c.allocated
         /\ createRet' = IF c.ret.null THEN "NULL" ELSE "state"
         /\ createCall' = r
    /\ UNCHANGED << syncLog, nullSyncs >>
    /\ UNCHANGED << mainVars, poseVars, mathVars, bindVars >>

\* XR_Input_Sync(state) on the object the caller holds.
InputSync ==
    /\ ~inputState.null
    /\ Len(syncLog) < MaxSyncs
    /\ \E r \in SyncResults :
         LET s == XR_Input_Sync(inputState, r) IN
         /\ inputState' = s.st
         /\ syncLog' = Append(syncLog, [ ret |-> s.ret, xrOk |-> r.ok,
                                         curr |-> s.st.currButtons ])
    /\ UNCHANGED << allocated, createRet, createCall, nullSyncs >>
    /\ UNCHANGED << mainVars, poseVars, mathVars, bindVars >>

\* XR_Input_Sync(state) while the caller holds NULL: xrSyncActions is not
\* called.
InputSyncNull ==
    /\ inputState.null
    /\ \E r \in { q \in SyncResults : ~q.ok } :
         LET s == XR_Input_Sync(inputState, r) IN
         /\ inputState' = s.st
         /\ nullSyncs' = nullSyncs \cup { s.ret }
    /\ nullSyncs' # nullSyncs
    /\ UNCHANGED << allocated, createRet, createCall, syncLog >>
    /\ UNCHANGED << mainVars, poseVars, mathVars, bindVars >>

\* XR_Input_Destroy(state); the caller drops its pointer, and the history
\* of the freed object with it.
InputDestroy ==
    /\ ~inputState.null
    /\ inputState' = NullState
    /\ allocated' = allocated - 1
    /\ syncLog' = << >>
    /\ UNCHANGED << createRet, createCall, nullSyncs >>
    /\ UNCHANGED << mainVars, poseVars, mathVars, bindVars >>

\* --- XR_Input_LocatePose
\* XrSpace XR_Input_GetSpace(controller, pose)
XR_Input_GetSpace(ctl, pose) ==
    IF ctl.null THEN XR_NULL_HANDLE
    ELSE IF pose = XR_POSE_GRIP THEN ctl.c.gripSpace
    ELSE IF pose = XR_POSE_AIM THEN ctl.c.aimSpace
    ELSE IF pose = XR_POSE_PALM THEN ctl.c.gripSpace
    ELSE XR_NULL_HANDLE

\* The pose the caller's variable holds before the call, and the poses
\* xrLocateSpace reports.
OldPose == 0
LocatedPoses == { 1, 2 }

\* The controllers a caller can pass: NULL, or a controller of a created
\* state with each of its two spaces created or not.
PoseControllers ==
    { NullController }
    \cup { ControllerAt([ ZeroController EXCEPT
                            !.hand = XR_HAND_RIGHT, !._state = StateAddr,
                            !.gripSpace = g, !.aimSpace = a ]) :
             g \in { XR_NULL_HANDLE, SpaceHandle(XR_HAND_RIGHT, XR_POSE_GRIP) },
             a \in { XR_NULL_HANDLE, SpaceHandle(XR_HAND_RIGHT, XR_POSE_AIM) } }

\* One call: the arguments, and the result, flags and pose xrLocateSpace gives.
PoseCalls ==
    [ controller : PoseControllers, poseType : 0..XR_POSE_COUNT,
      outPoseNull : BOOLEAN, outVelocityNull : BOOLEAN,
      locateOk : BOOLEAN, positionValid : BOOLEAN, orientationValid : BOOLEAN,
      pose : LocatedPoses ]

\* (location.locationFlags & requiredFlags) != requiredFlags
FlagsMissing_PositionOnly(call) == ~call.positionValid
FlagsMissing(call) == ~(call.positionValid /\ call.orientationValid)

\* XR_Input_LocatePose: its return value, the caller's pose and the type
\* field of the caller's velocity struct after the call.
XR_Input_LocatePose(call, pose, velocityType) ==
    LET same == [ ret |-> FALSE, outPose |-> pose, velocityType |-> velocityType ]
        typed == [ same EXCEPT !.velocityType =
                     IF call.outVelocityNull THEN velocityType
                     ELSE "XR_TYPE_SPACE_VELOCITY" ]
    IN  IF call.controller.null \/ call.outPoseNull THEN same
        ELSE IF XR_Input_GetSpace(call.controller, call.poseType) = XR_NULL_HANDLE
        THEN same
        ELSE IF ~call.locateOk THEN typed
        ELSE IF FlagsMissing(call) THEN typed
        ELSE [ typed EXCEPT !.ret = TRUE, !.outPose = call.pose ]

PoseInit ==
    /\ poseCall \in PoseCalls
    /\ poseRet = "pending" /\ outPose = OldPose /\ outVelocityType = "unset"

\* The caller makes the call.
PoseLocate ==
    /\ poseRet = "pending"
    /\ LET r == XR_Input_LocatePose(poseCall, outPose, outVelocityType) IN
       /\ poseRet' = IF r.ret THEN "true" ELSE "false"
       /\ outPose' = r.outPose
       /\ outVelocityType' = r.velocityType
    /\ UNCHANGED poseCall
    /\ UNCHANGED << mainVars, inputVars, mathVars, bindVars >>

\* ====================================================== matrix functions
\* A Mat4 is its 16 row-major elements, m[k + 1] being element k of the C
\* array.  Floats are modelled as exact rationals: the elements of a matrix
\* are the integers m[k] over the common denominator d.
Idx(i, j) == i * 4 + j + 1

\* static Mat4 Mat4_Multiply(Mat4 a, Mat4 b)
Mat4_Multiply(a, b) ==
    [ m |-> [ e \in 1..16 |->
                LET i == (e - 1) \div 4
                    j == (e - 1) % 4
                IN  a.m[Idx(i, 0)] * b.m[Idx(0, j)] + a.m[Idx(i, 1)] * b.m[Idx(1, j)]
                    + a.m[Idx(i, 2)] * b.m[Idx(2, j)] + a.m[Idx(i, 3)] * b.m[Idx(3, j)] ],
      d |-> a.d * b.d ]

\* Mat4_Translation(x, y, z) for the point (p.x, p.y, p.z) / p.d
Mat4_Translation(p) ==
    [ m |-> << p.d, 0, 0, 0,  0, p.d, 0, 0,  0, 0, p.d, 0,  p.x, p.y, p.z, p.d >>,
      d |-> p.d ]

\* Mat4_Scale(s) for s = n / d
Mat4_Scale(n, d) ==
    [ m |-> << n, 0, 0, 0,  0, n, 0, 0,  0, 0, n, 0,  0, 0, 0, d >>, d |-> d ]

\* Mat4_RotationY(rad) with cos(rad) = a.c / a.d and sin(rad) = a.s / a.d
Mat4_RotationY(a) ==
    [ m |-> << a.c, 0, -a.s, 0,  0, a.d, 0, 0,  a.s, 0, a.c, 0,  0, 0, 0, a.d >>,
      d |-> a.d ]

\* Mat4_RotationX(rad)
Mat4_RotationX(a) ==
    [ m |-> << a.d, 0, 0, 0,  0, a.c, a.s, 0,  0, -a.s, a.c, 0,  0, 0, 0, a.d >>,
      d |-> a.d ]

\* SDL_cosf and SDL_sinf of the angles a tick can reach: points of the unit
\* circle with rational coordinates.
Angles ==
    { [ c |-> 1, s |-> 0, d |-> 1 ], [ c |-> 0, s |-> 1, d |-> 1 ],
      [ c |-> -1, s |-> 0, d |-> 1 ], [ c |-> 0, s |-> -1, d |-> 1 ],
      [ c |-> 3, s |-> 4, d |-> 5 ], [ c |-> -4, s |-> 3, d |-> 5 ],
      [ c |-> 5, s |-> -12, d |-> 13 ], [ c |-> -12, s |-> -5, d |-> 13 ] }

\* cubePositions, cubeScales (in tenths)
cubePositions ==
    << [ x |-> 0, y |-> 0, z |-> -20, d |-> 10 ],
       [ x |-> -12, y |-> 4, z |-> -25, d |-> 10 ],
       [ x |-> 12, y |-> 3, z |-> -25, d |-> 10 ],
       [ x |-> -6, y |-> -4, z |-> -18, d |-> 10 ],
       [ x |-> 6, y |-> -3, z |-> -18, d |-> 10 ] >>
cubeScales == << 10, 6, 6, 5, 5 >>

\* Mat4 model = Mat4_Multiply(Mat4_Multiply(Mat4_Multiply(scale, rotY), rotX), trans);
\* rotY and rotX are the rotations by rot and by 0.7 * rot: any two angles.
ModelMatrix_TranslateFirst(cubeIdx, angY, angX) ==
    Mat4_Multiply(
        Mat4_Multiply(
            Mat4_Multiply(Mat4_Translation(cubePositions[cubeIdx + 1]),
                          Mat4_Scale(cubeScales[cubeIdx + 1], 10)),
            Mat4_RotationY(angY)),
        Mat4_RotationX(angX))
ModelMatrix(cubeIdx, angY, angX) ==
    Mat4_Multiply(
        Mat4_Multiply(
            Mat4_Multiply(Mat4_Scale(cubeScales[cubeIdx + 1], 10),
                          Mat4_RotationY(angY)),
            Mat4_RotationX(angX)),
        Mat4_Translation(cubePositions[cubeIdx + 1]))

\* A pose: a position with integer coordinates and the unit quaternion
\* (q.x, q.y, q.z, q.w) / sqrt(n), n = q.x^2 + q.y^2 + q.z^2 + q.w^2, so
\* that every product of two components is an integer over n.
QuatNorm2(q) == q.x * q.x + q.y * q.y + q.z * q.z + q.w * q.w
Quaternions ==
    { q \in [ x : -1..1, y : -1..1, z : -1..1, w : -1..1 ] : QuatNorm2(q) > 0 }
Positions3 ==
    { [ x |-> 0, y |-> 0, z |-> 0 ], [ x |-> 0, y |-> 0, z |-> -2 ],
      [ x |-> 1, y |-> 2, z |-> 3 ], [ x |-> -3, y |-> 1, z |-> 0 ] }
Poses == [ orientation : Quaternions, position : Positions3 ]

\* The three rotation-matrix columns Mat4_FromXrPose computes (over n).
PoseRight(q) ==
    [ x |-> QuatNorm2(q) - 2 * (q.y * q.y + q.z * q.z),
      y |-> 2 * (q.x * q.y + q.w * q.z),
      z |-> 2 * (q.x * q.z - q.w * q.y) ]
PoseUp(q) ==
    [ x |-> 2 * (q.x * q.y - q.w * q.z),
      y |-> QuatNorm2(q) - 2 * (q.x * q.x + q.z * q.z),
      z |-> 2 * (q.y * q.z + q.w * q.x) ]
PoseFwd(q) ==
    [ x |-> 2 * (q.x * q.z + q.w * q.y),
      y |-> 2 * (q.y * q.z - q.w * q.x),
      z |-> QuatNorm2(q) - 2 * (q.x * q.x + q.y * q.y) ]
Dot(a, b) == a.x * b.x + a.y * b.y + a.z * b.z

\* float dr = -(right.x*pos.x + right.y*pos.y + right.z*pos.z);  and du, df
ViewOffset_NotNegated(axis, pos) == Dot(axis, pos)
ViewOffset(axis, pos) == -Dot(axis, pos)

\* static Mat4 Mat4_FromXrPose(XrPosef pose)
Mat4_FromXrPose(pose) ==
    LET q == pose.orientation
        pos == pose.position
        right == PoseRight(q)
        up == PoseUp(q)
        fwd == PoseFwd(q)
        dr == ViewOffset(right, pos)
        du == ViewOffset(up, pos)
        df == ViewOffset(fwd, pos)
    IN  [ m |-> << right.x, up.x, fwd.x, 0,
                   right.y, up.y, fwd.y, 0,
                   right.z, up.z, fwd.z, 0,
                   dr, du, df, QuatNorm2(q) >>,
          d |-> QuatNorm2(q) ]

\* The field-of-view angles of a view: points of the unit circle within a
\* quarter turn of the forward axis, so SDL_tanf is the rational s / c.
FovAngles ==
    { [ c |-> 1, s |-> 0, d |-> 1 ],
      [ c |-> 4, s |-> 3, d |-> 5 ], [ c |-> 4, s |-> -3, d |-> 5 ],
      [ c |-> 3, s |-> 4, d |-> 5 ], [ c |-> 3, s |-> -4, d |-> 5 ],
      [ c |-> 12, s |-> 5, d |-> 13 ], [ c |-> 12, s |-> -5, d |-> 13 ] }
\* SDL_tanf(a), in twelfths
TanDen == 12
SDL_tanf(a) == (TanDen * a.s) \div a.c

\* Mat4_Projection(xrViews[i].fov, 0.05f, 100.0f): the clip planes in
\* twentieths
ClipDen == 20
nearZ == 1
farZ == 2000

\* (tR+tL) and (tU+tD), the numerators of the two skew terms
SkewSum_Difference(tA, tB) == tA - tB
SkewSum(tA, tB) == tA + tB

\* static Mat4 Mat4_Projection(XrFovf fov, float nearZ, float farZ), for a
\* field of view of non-zero width and height; the common denominator is
\* w * h * (farZ - nearZ).
Mat4_Projection(fov) ==
    LET tL == SDL_tanf(fov.angleLeft)
        tR == SDL_tanf(fov.angleRight)
        tU == SDL_tanf(fov.angleUp)
        tD == SDL_tanf(fov.angleDown)
        w == tR - tL
        h == tU - tD
        z == farZ - nearZ
        den == w * h * z * ClipDen
    IN  [ m |-> << 2 * TanDen * h * z * ClipDen, 0, 0, 0,
                   0, 2 * TanDen * w * z * ClipDen, 0, 0,
                   SkewSum(tR, tL) * h * z * ClipDen,
                   SkewSum(tU, tD) * w * z * ClipDen,
                   -farZ * w * h * ClipDen, -den,
                   0, 0, -(farZ * nearZ) * w * h, 0 >>,
          d |-> den ]

\* The fields of view a runtime reports: non-zero width and height.
Fovs ==
    { f \in [ angleLeft : FovAngles, angleRight : FovAngles,
              angleUp : FovAngles, angleDown : FovAngles ] :
        /\ SDL_tanf(f.angleRight) # SDL_tanf(f.angleLeft)
        /\ SDL_tanf(f.angleUp) # SDL_tanf(f.angleDown) }

\* --- the calls of the matrix functions
NoMatrix == [ m |-> [ e \in 1..16 |-> 0 ], d |-> 1 ]
ModelCalls ==
    [ fn : { "ModelMatrix" }, cubeIdx : 0..(NUM_CUBES - 1),
      angY : Angles, angX : Angles ]
PoseMatrixCalls == [ fn : { "Mat4_FromXrPose" }, pose : Poses ]
ProjectionCalls == [ fn : { "Mat4_Projection" }, fov : Fovs ]

MathInit ==
    /\ mathCall \in ModelCalls \cup PoseMatrixCalls \cup ProjectionCalls
    /\ mathDone = FALSE /\ mathOut = NoMatrix

ApplyModelMatrix ==
    /\ ~mathDone /\ mathCall.fn = "ModelMatrix"
    /\ mathOut' = ModelMatrix(mathCall.cubeIdx, mathCall.angY, mathCall.angX)
    /\ mathDone' = TRUE
    /\ UNCHANGED mathCall
    /\ UNCHANGED << mainVars, inputVars, poseVars, bindVars >>

ApplyFromXrPose ==
    /\ ~mathDone /\ mathCall.fn = "Mat4_FromXrPose"
    /\ mathOut' = Mat4_FromXrPose(mathCall.pose)
    /\ mathDone' = TRUE
    /\ UNCHANGED mathCall
    /\ UNCHANGED << mainVars, inputVars, poseVars, bindVars >>

ApplyProjection ==
    /\ ~mathDone /\ mathCall.fn = "Mat4_Projection"
    /\ mathOut' = Mat4_Projection(mathCall.fov)
    /\ mathDone' = TRUE
    /\ UNCHANGED mathCall
    /\ UNCHANGED << mainVars, inputVars, poseVars, bindVars >>

\* ------------------------------------------- SuggestBindingsForProfile
\* A const char *: NULL, or the string it points to.
NullStr == [ null |-> TRUE, str |-> "" ]
Str(chars) == [ null |-> FALSE, str |-> chars ]

\* static const ControllerProfile g_profiles[]
g_profiles ==
    << [ profile |-> Str("/interaction_profiles/oculus/touch_controller"),
         trigger |-> Str("/input/trigger/value"),
         grip |-> Str("/input/squeeze/value"),
         thumbstick |-> Str("/input/thumbstick"),
         trackpad |-> NullStr,
         buttonA |-> Str("/input/a/click"),
         buttonB |-> Str("/input/b/click"),
         buttonMenu |-> Str("/input/menu/click"),
         thumbstickClick |-> Str("/input/thumbstick/click"),
         gripPose |-> Str("/input/grip/pose"),
         aimPose |-> Str("/input/aim/pose"),
         haptic |-> Str("/output/haptic") ],
       [ profile |-> Str("/interaction_profiles/valve/index_controller"),
         trigger |-> Str("/input/trigger/value"),
         grip |-> Str("/input/squeeze/value"),
         thumbstick |-> Str("/input/thumbstick"),
         trackpad |-> Str("/input/trackpad"),
         buttonA |-> Str("/input/a/click"),
         buttonB |-> Str("/input/b/click"),
         buttonMenu |-> Str("/input/system/click"),
         thumbstickClick |-> Str("/input/thumbstick/click"),
         gripPose |-> Str("/input/grip/pose"),
         aimPose |-> Str("/input/aim/pose"),
         haptic |-> Str("/output/haptic") ],
       [ profile |-> Str("/interaction_profiles/htc/vive_controller"),
         trigger |-> Str("/input/trigger/value"),
         grip |-> Str("/input/squeeze/click"),
         thumbstick |-> NullStr,
         trackpad |-> Str("/input/trackpad"),
         buttonA |-> Str("/input/trackpad/click"),
         buttonB |-> NullStr,
         buttonMenu |-> Str("/input/menu/click"),
         thumbstickClick |-> NullStr,
         gripPose |-> Str("/input/grip/pose"),
         aimPose |-> Str("/input/aim/pose"),
         haptic |-> Str("/output/haptic") ],
       [ profile |-> Str("/interaction_profiles/khr/simple_controller"),
         trigger |-> Str("/input/select/click"),
         grip |-> NullStr,
         thumbstick |-> NullStr,
         trackpad |-> NullStr,
         buttonA |-> Str("/input/select/click"),
         buttonB |-> NullStr,
         buttonMenu |-> Str("/input/menu/click"),
         thumbstickClick |-> NullStr,
         gripPose |-> Str("/input/grip/pose"),
         aimPose |-> Str("/input/aim/pose"),
         haptic |-> Str("/output/haptic") ] >>
g_profileCount == Len(g_profiles)

\* XrActionSuggestedBinding bindings[64];
BindingsCapacity == 64
handPrefixes == << "/user/hand/left", "/user/hand/right" >>

\* The if-blocks of the loop body in their order: the profile field tested
\* and the action bound.
BindingBlocks ==
    << [ field |-> "trigger", action |-> "triggerAction" ],
       [ field |-> "grip", action |-> "gripAction" ],
       [ field |-> "thumbstick", action |-> "thumbstickAction" ],
       [ field |-> "trackpad", action |-> "trackpadAction" ],
       [ field |-> "buttonA", action |-> "buttonActions[XR_BUTTON_A]" ],
       [ field |-> "buttonB", action |-> "buttonActions[XR_BUTTON_B]" ],
       [ field |-> "buttonMenu", action |-> "buttonActions[XR_BUTTON_MENU]" ],
       [ field |-> "thumbstickClick",
         action |-> "buttonActions[XR_BUTTON_THUMBSTICK]" ],
       [ field |-> "gripPose", action |-> "gripPoseAction" ],
       [ field |-> "aimPose", action |-> "aimPoseAction" ],
       [ field |-> "haptic", action |-> "hapticAction" ] >>

\* if (profile->trigger) ... : the block runs for a non-null field
FieldPresent_Always(profile, field) == TRUE
FieldPresent(profile, field) == ~profile[field].null

\* static XrPath GetPath(instance, pathString): XR_NULL_PATH when
\* xrStringToPath fails, else the path atom of the string.
XR_NULL_PATH == [ null |-> TRUE, str |-> "" ]
GetPath(rejected, pathString) ==
    IF pathString \in rejected THEN XR_NULL_PATH
    ELSE [ null |-> FALSE, str |-> pathString ]

\* snprintf(pathBuf, sizeof(pathBuf), "%s%s", handPrefixes[hand], field);
\* every string of the table is far shorter than the 256-byte buffer.
PathBuf(hand, str) == handPrefixes[hand + 1] \o str

\* --- one SuggestBindingsForProfile call
Unwritten == [ action |-> "", binding |-> XR_NULL_PATH ]
NoBindings == [ i \in 0..(BindingsCapacity - 1) |-> Unwritten ]
NoSuggestion == [ made |-> FALSE, interactionProfile |-> XR_NULL_PATH,
                  countSuggestedBindings |-> 0 ]

\* Path strings a runtime may fail to convert.
RejectedPaths ==
    { {},
      { "/interaction_profiles/valve/index_controller" },
      { "/user/hand/left/input/trackpad" },
      { "/interaction_profiles/khr/simple_controller",
        "/user/hand/right/output/haptic" } }

\* The profile passed (an entry of g_profiles), the strings the runtime
\* rejects and whether xrSuggestInteractionProfileBindings succeeds.
BindCalls ==
    [ profile : 1..g_profileCount, rejected : RejectedPaths,
      suggestOk : BOOLEAN ]

BindIdle ==
    /\ bindCall = [ profile |-> 0 ]
    /\ bindPc = "idle" /\ bindHand = 0 /\ bindBlock = 1
    /\ bindings = NoBindings /\ bindingCount = 0 /\ bindOverrun = FALSE
    /\ suggested = NoSuggestion /\ bindRet = "pending"

BindInit ==
    /\ bindCall \in BindCalls
    /\ bindPc = "GetProfilePath" /\ bindHand = 0 /\ bindBlock = 1
    /\ bindings = NoBindings /\ bindingCount = 0 /\ bindOverrun = FALSE
    /\ suggested = NoSuggestion /\ bindRet = "pending"

\* XrPath profilePath = GetPath(...); if (profilePath == XR_NULL_PATH) return false;
BindGetProfilePath ==
    /\ bindPc = "GetProfilePath"
    /\ LET profilePath ==
               GetPath(bindCall.rejected, g_profiles[bindCall.profile].profile.str)
       IN  IF profilePath = XR_NULL_PATH
           THEN bindPc' = "Returned" /\ bindRet' = "false"
           ELSE bindPc' = "Loop" /\ bindRet' = bindRet
    /\ UNCHANGED << bindCall, bindHand, bindBlock, bindings, bindingCount,
                    bindOverrun, suggested >>
    /\ UNCHANGED << mainVars, inputVars, poseVars, mathVars >>

\* One if-block of the body of for (hand = 0; hand < 2; hand++): a write at
\* bindings[bindingCount] and bindingCount++ when the field is present. A
\* write at or past the capacity lands outside the array.
BindBlock ==
    /\ bindPc = "Loop" /\ bindHand < 2
    /\ LET profile == g_profiles[bindCall.profile]
           blk == BindingBlocks[bindBlock]
           slot == [ action |-> blk.action,
                     binding |-> GetPath(bindCall.rejected,
                                         PathBuf(bindHand, profile[blk.field].str)) ]
       IN  IF FieldPresent(profile, blk.field)
           THEN /\ IF bindingCount < BindingsCapacity
                   THEN /\ bindings' = [ bindings EXCEPT ![bindingCount] = slot ]
                        /\ bindOverrun' = bindOverrun
                   ELSE /\ bindings' = bindings
                        /\ bindOverrun' = TRUE
                /\ bindingCount' = bindingCount + 1
           ELSE UNCHANGED << bindings, bindingCount, bindOverrun >>
    /\ IF bindBlock < Len(BindingBlocks)
       THEN bindBlock' = bindBlock + 1 /\ bindHand' = bindHand
       ELSE bindBlock' = 1 /\ bindHand' = bindHand + 1
    /\ UNCHANGED << bindCall, bindPc, suggested, bindRet >>
    /\ UNCHANGED << mainVars, inputVars, poseVars, mathVars >>

\* suggestedBindings.countSuggestedBindings = bindingCount;
\* result = xrSuggestInteractionProfileBindings(...); return result == XR_SUCCESS;
BindSuggest ==
    /\ bindPc = "Loop" /\ bindHand = 2
    /\ suggested' =
           [ made |-> TRUE,
             interactionProfile |->
                 GetPath(bindCall.rejected, g_profiles[bindCall.profile].profile.str),
             countSuggestedBindings |-> bindingCount ]
    /\ bindRet' = IF bindCall.suggestOk THEN "true" ELSE "false"
    /\ bindPc' = "Returned"
    /\ UNCHANGED << bindCall, bindHand, bindBlock, bindings, bindingCount,
                    bindOverrun >>
    /\ UNCHANGED << mainVars, inputVars, poseVars, mathVars >>

\* The state of main.c after static initialisation.
MainInit ==
    /\ pc = "CreateGPUDevice"
    /\ gpuDevice = FALSE /\ xrFunctionsLoaded = FALSE
    /\ xrSession = FALSE /\ xrLocalSpace = FALSE
    /\ xrSessionRunning = FALSE /\ xrShouldQuit = FALSE
    /\ vrSwapchains = NullPool /\ viewCount = 0
    /\ pipeline = FALSE /\ vertexBuffer = FALSE /\ indexBuffer = FALSE
    /\ animTime = 0 /\ exitCode = -1
    /\ rtState = "NONE" /\ rtViews \in 1..MaxViews
    /\ evQueue = << >> /\ nPosted = 0
    /\ liveSwapchains = {} /\ nextHandle = 1 /\ held = {}
    /\ iter = 0 /\ tick = NoTick /\ sessLog = << >>
    /\ openFrames = 0
    /\ lastCreate = NoCreate /\ nPoolCreations = 0
    /\ lastReady = NoReady /\ quitEvt = NoQuitEvt /\ lateCalls = {}
    /\ destroyLog = << >> /\ cleanups = 0

\* The input layer, the pose call and the matrix call before anything is
\* called.
PoseIdle ==
    /\ poseCall = [ controller |-> NullController, poseType |-> XR_POSE_GRIP,
                    outPoseNull |-> TRUE, outVelocityNull |-> TRUE,
                    locateOk |-> FALSE, positionValid |-> FALSE,
                    orientationValid |-> FALSE, pose |-> 1 ]
    /\ poseRet = "pending" /\ outPose = OldPose /\ outVelocityType = "unset"
MathIdle ==
    /\ mathCall = [ fn |-> "none" ]
    /\ mathDone = FALSE /\ mathOut = NoMatrix

Init == MainInit /\ InputInit /\ PoseIdle /\ MathIdle /\ BindIdle

\* ------------------------------------------------------------ RenderFrame
\* The inputs of one RenderFrame call: the results the compositor gives.
ViewOutcomes == { "ok", "acquireFail", "waitFail" }
AllFail == [ i \in 0..(MaxViews - 1) |-> "acquireFail" ]
FrameInputs ==
    { in \in [ waitOk : BOOLEAN, beginOk : BOOLEAN, shouldRender : BOOLEAN,
               locateOk : BOOLEAN, viewStateValid : BOOLEAN,
               out : [0..(MaxViews - 1) -> ViewOutcomes] ] :
        \* the result of a call that is not made is left at failure
        /\ ~in.waitOk => ~in.beginOk
        /\ ~in.beginOk => ~in.shouldRender
        /\ ~in.shouldRender => ~in.locateOk
        /\ ~in.locateOk => (in.out = AllFail /\ ~in.viewStateValid)
        \* viewState.viewStateFlags is written by xrLocateViews and not read
        \* again: views reported as not locatable are paired with swapchain
        \* calls that all succeed
        /\ (in.locateOk /\ ~in.viewStateValid) =>
               \A i \in 0..(MaxViews - 1) : in.out[i] = "ok" }

\* if (!xrSessionRunning) return;
FrameGuard_Always == TRUE
FrameGuard == xrSessionRunning

\* frameState.shouldRender && viewCount > 0 && vrSwapchains != NULL
RenderCondition_IgnoreShouldRender(shouldRender) ==
    viewCount > 0 /\ ~vrSwapchains.null
RenderCondition(shouldRender) ==
    shouldRender /\ viewCount > 0 /\ ~vrSwapchains.null

\* The handle RenderFrame reads for view i.
SwapchainOf(i) == vrSwapchains.sc[i + 1]

ReleaseCall(i) == Call("xrReleaseSwapchainImage", i, TRUE, SwapchainOf(i))

\* xrWaitSwapchainImage failed: release the image, go to the next view.
WaitFailPath_NoRelease(i) == << >>
WaitFailPath(i) == << ReleaseCall(i) >>

\* The draw loop, entered only with a pipeline and both buffers.
DrawCalls(i) ==
    IF pipeline /\ vertexBuffer /\ indexBuffer
    THEN [ k \in 1..NUM_CUBES |->
             Call("SDL_DrawGPUIndexedPrimitives", i, TRUE, k - 1) ]
    ELSE << >>

\* One pass of the view loop body for view i with the given outcome.
ViewCalls(i, outcome) ==
    IF outcome = "acquireFail"
    THEN << Call("xrAcquireSwapchainImage", i, FALSE, SwapchainOf(i)) >>
    ELSE << Call("xrAcquireSwapchainImage", i, TRUE, SwapchainOf(i)),
            Call("xrWaitSwapchainImage", i, outcome = "ok", SwapchainOf(i)) >>
         \o (IF outcome = "waitFail"
             THEN WaitFailPath(i)
             ELSE << Call("SDL_BeginGPURenderPass", i, TRUE, SwapchainOf(i)) >>
                  \o DrawCalls(i)
                  \o << Call("SDL_EndGPURenderPass", i, TRUE, SwapchainOf(i)),
                        ReleaseCall(i) >>)

\* for (i = 0; i < viewCount; i++) { ... }, from view i on.
RECURSIVE ViewLoop_BreakOnFail(_, _)
ViewLoop_BreakOnFail(i, out) ==
    IF i >= viewCount THEN << >>
    ELSE ViewCalls(i, out[i])
         \o (IF out[i] = "ok" THEN ViewLoop_BreakOnFail(i + 1, out) ELSE << >>)
RECURSIVE ViewLoop(_, _)
ViewLoop(i, out) ==
    IF i >= viewCount THEN << >>
    ELSE ViewCalls(i, out[i]) \o ViewLoop(i + 1, out)

\* The views whose projViews[i] entry is written: the loop reached its end.
Populated(out) == { i \in 0..(viewCount - 1) : out[i] = "ok" }

\* layer.viewCount = viewCount;
LayerViewCount(out) == viewCount

\* endInfo.displayTime = frameState.predictedDisplayTime;  frameState is a
\* local of RenderFrame that this tick's xrWaitFrame filled with t.
EndInfoDisplayTime_Previous(t) == t - 1
EndInfoDisplayTime(t) == t

\* The endFrame: label, reached from the end of the render branch, from the
\* skipped branch and by goto from a failed xrLocateViews.
EndFrameCalls_ReturnOnLocateFail(t, layerCount, locateFailed) ==
    IF locateFailed THEN << >>
    ELSE << Call("xrEndFrame", -1, TRUE, EndInfoDisplayTime(t)) >>
EndFrameCalls(t, layerCount, locateFailed) ==
    << Call("xrEndFrame", -1, TRUE, EndInfoDisplayTime(t)) >>

\* xrLocateViews failed: goto endFrame with the layer variables untouched.
LocateFailBranch_LayerSet(t) ==
    [ calls |-> << Call("xrLocateViews", -1, FALSE, t) >>,
      layerCount |-> 1, layerViewCount |-> viewCount, populated |-> {} ]
LocateFailBranch(t) ==
    [ calls |-> << Call("xrLocateViews", -1, FALSE, t) >>,
      layerCount |-> 0, layerViewCount |-> 0, populated |-> {} ]

\* SDL_SubmitGPUCommandBuffer(cmdBuf);  after the view loop, whatever the
\* views did.
SubmitCalls_OnlyIfRendered(out) ==
    IF Populated(out) # {}
    THEN << Call("SDL_SubmitGPUCommandBuffer", -1, TRUE, 0) >> ELSE << >>
SubmitCalls(out) == << Call("SDL_SubmitGPUCommandBuffer", -1, TRUE, 0) >>

\* The body of the render branch, up to the endFrame label.
RenderBranch(t, in) ==
    IF ~in.locateOk
    THEN LocateFailBranch(t)
    ELSE [ calls |-> << Call("xrLocateViews", -1, TRUE, t),
                        Call("SDL_AcquireGPUCommandBuffer", -1, TRUE, 0) >>
                     \o ViewLoop(0, in.out)
                     \o SubmitCalls(in.out),
           layerCount |-> 1, layerViewCount |-> LayerViewCount(in.out),
           populated |-> Populated(in.out) ]

\* if (XR_FAILED(result)) return;  after xrBeginFrame: nothing more is called.
BeginFailPath_EndFrame(t) == << Call("xrEndFrame", -1, TRUE, t) >>
BeginFailPath(t) == << >>

SkippedBranch ==
    [ calls |-> << >>, layerCount |-> 0, layerViewCount |-> 0, populated |-> {} ]

\* Everything one RenderFrame call does, given the compositor's results and
\* the predicted display time t of this tick's xrWaitFrame.
RenderFrameTick(t, in) ==
    IF ~FrameGuard
    THEN [ NoTick EXCEPT !.iter = iter, !.running = xrSessionRunning ]
    ELSE IF ~in.waitOk
    THEN [ NoTick EXCEPT !.iter = iter, !.running = xrSessionRunning,
              !.calls = << Call("xrWaitFrame", -1, FALSE, 0) >> ]
    ELSE IF ~in.beginOk
    THEN [ NoTick EXCEPT !.iter = iter, !.running = xrSessionRunning,
              !.calls = << Call("xrWaitFrame", -1, TRUE, t),
                           Call("xrBeginFrame", -1, FALSE, 0) >>
                        \o BeginFailPath(t) ]
    ELSE LET rb == IF RenderCondition(in.shouldRender)
                   THEN RenderBranch(t, in) ELSE SkippedBranch
             locateFailed == RenderCondition(in.shouldRender) /\ ~in.locateOk
         IN  [ iter |-> iter, running |-> xrSessionRunning,
               calls |-> << Call("xrWaitFrame", -1, TRUE, t),
                            Call("xrBeginFrame", -1, TRUE, 0) >>
                         \o rb.calls
                         \o EndFrameCalls(t, rb.layerCount, locateFailed),
               layerCount |-> rb.layerCount,
               layerViewCount |-> rb.layerViewCount,
               populated |-> rb.populated,
               shouldRender |-> in.shouldRender,
               viewStateValid |-> in.viewStateValid,
               streak |-> 0 ]

\* animTime += 0.011f, in the render branch only.
AnimAdvance_AfterLocate(in) ==
    IF /\ FrameGuard /\ in.waitOk /\ in.beginOk
       /\ RenderCondition(in.shouldRender) /\ in.locateOk
    THEN 1 ELSE 0
AnimAdvance(in) ==
    IF FrameGuard /\ in.waitOk /\ in.beginOk /\ RenderCondition(in.shouldRender)
    THEN 1 ELSE 0

\* The compositor's bookkeeping of acquired images over a call log.
RECURSIVE HeldAfter(_, _)
HeldAfter(h, s) ==
    IF s = << >> THEN h
    ELSE LET c == Head(s) IN
         HeldAfter(IF c.op = "xrAcquireSwapchainImage" /\ c.ok
                   THEN h \cup { c.arg }
                   ELSE IF c.op = "xrReleaseSwapchainImage"
                   THEN h \ { c.arg } ELSE h,
                   Tail(s))

\* RenderFrame holds no assignment to xrShouldQuit or xrSessionRunning:
\* the value of each flag after the tick r.
QuitFlagAfterFrame_OnLocateFail(r) ==
    xrShouldQuit \/ (\E k \in 1..Len(r.calls) :
                        r.calls[k].op = "xrLocateViews" /\ ~r.calls[k].ok)
QuitFlagAfterFrame(r) == xrShouldQuit
RunningAfterFrame(r) == xrSessionRunning

\* The tick tk stopped at a failed xrWaitFrame.
WaitFailed(tk) ==
    \E k \in 1..Len(tk.calls) :
        tk.calls[k].op = "xrWaitFrame" /\ ~tk.calls[k].ok

IsBeginFrameOk(c) == c.op = "xrBeginFrame" /\ c.ok
IsEndFrame(c) == c.op = "xrEndFrame"

\* An acquire on the null handle cannot succeed.
OutcomePossible(in) ==
    \A i \in 0..(MaxViews - 1) :
        (i < viewCount /\ ~vrSwapchains.null /\ SwapchainOf(i) = XR_NULL_HANDLE)
            => in.out[i] = "acquireFail"

\* The predicted display time xrWaitFrame reports: the compositor's clock
\* advances with every frame of the loop.
PredictedDisplayTime == iter

RenderFrame ==
    /\ pc = "RenderFrame"
    /\ \E in \in FrameInputs :
         /\ OutcomePossible(in)
         /\ LET r == RenderFrameTick(PredictedDisplayTime, in)
            IN  /\ tick' = [ r EXCEPT !.streak = tick.streak ]
                /\ xrShouldQuit' = QuitFlagAfterFrame(r)
                /\ xrSessionRunning' = RunningAfterFrame(r)
                /\ openFrames' = openFrames + Count(r.calls, IsBeginFrameOk)
                                             - Count(r.calls, IsEndFrame)
                /\ held' = HeldAfter(held, r.calls)
                /\ animTime' = animTime + AnimAdvance(in)
                /\ lateCalls' = IF quitEvt.seen THEN lateCalls \cup Ops(r.calls)
                                ELSE lateCalls
    /\ pc' = "LoopTest"
    /\ UNCHANGED << gpuDevice, xrFunctionsLoaded, xrSession, xrLocalSpace,
                    poolVars, exitCode,
                    rtState, rtViews, evQueue, nPosted, liveSwapchains,
                    nextHandle, iter, sessHist, quitEvt, destroyLog, cleanups >>
    /\ UNCHANGED auxVars

\* ------------------------------------------------------- CreateSwapchains
\* The results the compositor and the GPU layer give to one CreateSwapchains
\* call.  failAt is the view whose SDL_CreateGPUXRSwapchain fails, or
\* MaxViews when none fails; gpu is the outcome of CreatePipeline and
\* CreateCubeBuffers.
GpuOutcomes == { "ok", "pipeline", "vertex", "index" }
CreateInputs ==
    { cin \in [ enum1Ok : BOOLEAN, enum2Ok : BOOLEAN, failAt : 0..MaxViews,
                gpu : GpuOutcomes ] :
        \* the result of a call that is not made is left at failure
        /\ ~cin.enum1Ok => ~cin.enum2Ok
        /\ ~cin.enum2Ok => cin.failAt = 0
        /\ cin.failAt < rtViews => cin.gpu = "pipeline"
        /\ cin.failAt <= rtViews }

\* vrSwapchains = SDL_calloc(viewCount, ...), then the creation loop up to
\* the failing view: views before it hold fresh handles, the others null.
PoolAfterLoop(n, failAt) ==
    [ null |-> FALSE,
      sc |-> [ k \in 1..n |-> IF k - 1 < failAt THEN nextHandle + (k - 1)
                              ELSE XR_NULL_HANDLE ] ]

\* The swapchain handles one call creates.
HandlesMade(n, failAt) ==
    { nextHandle + i : i \in { j \in 0..(n - 1) : j < failAt } }

\* CreateSwapchains as a function of the current state and the results:
\* its return value and the globals it leaves behind.
CreateSwapchains(cin) ==
    LET same == [ ret |-> 1, failedView |-> -1, made |-> {},
                  viewCount |-> viewCount, vrSwapchains |-> vrSwapchains,
                  pipeline |-> pipeline, vertexBuffer |-> vertexBuffer,
                  indexBuffer |-> indexBuffer ]
        n == rtViews
    IN  IF ~cin.enum1Ok THEN same
        ELSE IF ~cin.enum2Ok THEN [ same EXCEPT !.viewCount = n ]
        ELSE IF cin.failAt < n
        THEN [ same EXCEPT !.viewCount = n, !.failedView = cin.failAt,
                  !.made = HandlesMade(n, cin.failAt),
                  !.vrSwapchains = PoolAfterLoop(n, cin.failAt) ]
        ELSE LET full == [ same EXCEPT !.viewCount = n,
                              !.made = HandlesMade(n, n),
                              !.vrSwapchains = PoolAfterLoop(n, n) ]
             IN  IF n > 0 /\ ~pipeline
                 THEN IF cin.gpu = "pipeline" THEN full
                      ELSE IF cin.gpu = "vertex"
                      THEN [ full EXCEPT !.pipeline = TRUE, !.indexBuffer = TRUE ]
                      ELSE IF cin.gpu = "index"
                      THEN [ full EXCEPT !.pipeline = TRUE, !.vertexBuffer = TRUE ]
                      ELSE [ full EXCEPT !.ret = 0, !.pipeline = TRUE,
                                !.vertexBuffer = TRUE, !.indexBuffer = TRUE ]
                 ELSE [ full EXCEPT !.ret = 0 ]

\* --------------------------------------------------------- HandleXREvents
SessionEvent(state) == [ type |-> "SESSION_STATE_CHANGED", state |-> state ]
OtherEvent(type) == [ type |-> type, state |-> "NONE" ]

\* case XR_SESSION_STATE_READY
IsReadyEvent_AnyRunningState(ev) ==
    ev.type = "SESSION_STATE_CHANGED" /\ ev.state \in { "READY", "SYNCHRONIZED" }
IsReadyEvent(ev) ==
    ev.type = "SESSION_STATE_CHANGED" /\ ev.state = "READY"

\* case XR_SESSION_STATE_STOPPING
IsStoppingEvent(ev) ==
    ev.type = "SESSION_STATE_CHANGED" /\ ev.state = "STOPPING"

\* case XR_SESSION_STATE_EXITING, XR_SESSION_STATE_LOSS_PENDING and
\* case XR_TYPE_EVENT_DATA_INSTANCE_LOSS_PENDING
IsQuitEvent(ev) ==
    \/ ev.type = "SESSION_STATE_CHANGED" /\ ev.state \in { "EXITING", "LOSS_PENDING" }
    \/ ev.type = "INSTANCE_LOSS_PENDING"

\* xrShouldQuit = true;  the value the quit flag has after such an event
QuitFlagOnEvent_Unchanged == xrShouldQuit
QuitFlagOnEvent == TRUE

\* if (CreateSwapchains() != 0) xrShouldQuit = true;
QuitFlagAfterCreate_Ignored(ret) == xrShouldQuit
QuitFlagAfterCreate(ret) == xrShouldQuit \/ ret # 0

\* xrSessionRunning = false;  in the stopping case
RunningAfterStopping_Kept == xrSessionRunning
RunningAfterStopping == FALSE

LateAdd(ops) == IF quitEvt.seen THEN lateCalls \cup ops ELSE lateCalls

\* while (pfn_xrPollEvent(...) == XR_SUCCESS): the loop ends when a poll
\* reports no pending event.
DrainEnds_AfterAnyPoll == TRUE
DrainEnds == evQueue = << >>

\* xrPollEvent reports no pending event: the drain loop ends.
PollEmpty ==
    /\ pc = "HandleXREvents"
    /\ DrainEnds
    /\ pc' = "RenderFrame"
    /\ lateCalls' = LateAdd({ "xrPollEvent" })
    /\ UNCHANGED << progVars, rtVars, iter, frameHist, sessHist, quitEvt,
                    destroyLog, cleanups >>
    /\ UNCHANGED auxVars

\* A polled session-ready event: xrBeginSession, and on success the running
\* flag and CreateSwapchains, whose failure sets the quit flag.
HandleReady ==
    /\ pc = "HandleXREvents"
    /\ evQueue # << >>
    /\ IsReadyEvent(Head(evQueue))
    /\ evQueue' = Tail(evQueue)
    /\ sessLog' = Append(sessLog, "begin")
    /\ \E beginOk \in (IF rtState = "READY" THEN BOOLEAN ELSE { FALSE }) :
         IF beginOk
         THEN \E cin \in CreateInputs :
                LET r == CreateSwapchains(cin) IN
                /\ xrSessionRunning' = TRUE
                /\ xrShouldQuit' = QuitFlagAfterCreate(r.ret)
                /\ viewCount' = r.viewCount
                /\ vrSwapchains' = r.vrSwapchains
                /\ pipeline' = r.pipeline
                /\ vertexBuffer' = r.vertexBuffer
                /\ indexBuffer' = r.indexBuffer
                /\ liveSwapchains' = liveSwapchains \cup r.made
                /\ nextHandle' = nextHandle + Cardinality(r.made)
                /\ rtState' = "RUNNING"
                /\ lastCreate' = [ ret |-> r.ret, failedView |-> r.failedView,
                                   made |-> r.made ]
                /\ nPoolCreations' = nPoolCreations + (IF r.made # {} THEN 1 ELSE 0)
                /\ lastReady' = [ before |-> xrSessionRunning,
                                  beginOk |-> TRUE, poolFailed |-> r.ret # 0,
                                  after |-> TRUE ]
                /\ lateCalls' = LateAdd({ "xrPollEvent", "xrBeginSession",
                                          "xrEnumerateViewConfigurationViews" }
                                        \cup (IF cin.enum1Ok /\ cin.enum2Ok
                                              THEN { "SDL_CreateGPUXRSwapchain" }
                                              ELSE {}))
         ELSE /\ lastReady' = [ before |-> xrSessionRunning,
                                beginOk |-> FALSE, poolFailed |-> FALSE,
                                after |-> xrSessionRunning ]
              /\ lateCalls' = LateAdd({ "xrPollEvent", "xrBeginSession" })
              /\ UNCHANGED << xrSessionRunning, xrShouldQuit, poolVars,
                              liveSwapchains, nextHandle, rtState, lastCreate,
                              nPoolCreations >>
    /\ UNCHANGED << pc, gpuDevice, xrFunctionsLoaded, xrSession, xrLocalSpace,
                    animTime, exitCode, rtViews, nPosted, held, iter,
                    frameHist, quitEvt, destroyLog, cleanups >>
    /\ UNCHANGED auxVars

\* A polled stopping event: xrEndSession, result ignored, running flag cleared.
HandleStopping ==
    /\ pc = "HandleXREvents"
    /\ evQueue # << >>
    /\ IsStoppingEvent(Head(evQueue))
    /\ evQueue' = Tail(evQueue)
    /\ sessLog' = Append(sessLog, "end")
    /\ xrSessionRunning' = RunningAfterStopping
    /\ \E endOk \in (IF rtState = "STOPPING" THEN BOOLEAN ELSE { FALSE }) :
         rtState' = IF endOk THEN "IDLE" ELSE rtState
    /\ lateCalls' = LateAdd({ "xrPollEvent", "xrEndSession" })
    /\ UNCHANGED << pc, gpuDevice, xrFunctionsLoaded, xrSession, xrLocalSpace,
                    xrShouldQuit, poolVars, animTime, exitCode, rtViews,
                    nPosted, liveSwapchains, nextHandle, held, iter, frameHist,
                    lastCreate, nPoolCreations, lastReady, quitEvt, destroyLog,
                    cleanups >>
    /\ UNCHANGED auxVars

\* A polled exiting, loss-pending or instance-loss-pending event.
HandleQuitEvent ==
    /\ pc = "HandleXREvents"
    /\ evQueue # << >>
    /\ IsQuitEvent(Head(evQueue))
    /\ evQueue' = Tail(evQueue)
    /\ xrShouldQuit' = QuitFlagOnEvent
    /\ quitEvt' = IF quitEvt.seen THEN quitEvt
                  ELSE [ seen |-> TRUE, iter |-> iter ]
    /\ lateCalls' = LateAdd({ "xrPollEvent" })
    /\ UNCHANGED << pc, gpuDevice, xrFunctionsLoaded, xrSession, xrLocalSpace,
                    xrSessionRunning, poolVars, animTime, exitCode, rtState,
                    rtViews, nPosted, liveSwapchains, nextHandle, held,
                    iter, frameHist, sessHist, destroyLog, cleanups >>
    /\ UNCHANGED auxVars

\* A polled event of another type or session state: the default branches.
HandleIgnored ==
    /\ pc = "HandleXREvents"
    /\ evQueue # << >>
    /\ ~IsReadyEvent(Head(evQueue))
    /\ ~IsStoppingEvent(Head(evQueue))
    /\ ~IsQuitEvent(Head(evQueue))
    /\ evQueue' = Tail(evQueue)
    /\ lateCalls' = LateAdd({ "xrPollEvent" })
    /\ UNCHANGED << pc, progVars, rtState, rtViews, nPosted,
                    liveSwapchains, nextHandle, held, iter, frameHist, sessHist,
                    quitEvt, destroyLog, cleanups >>
    /\ UNCHANGED auxVars

\* ------------------------------------------------------------ compositor
\* The session exists and main is inside its loop.
\* Events are queued while the program drains the queue; an event that
\* arrives between two drains is seen by the next drain all the same.
Post(ev, next) ==
    /\ pc = "HandleXREvents"
    /\ nPosted < MaxEvents
    /\ nPosted' = nPosted + 1
    /\ evQueue' = Append(evQueue, ev)
    /\ rtState' = next
    /\ UNCHANGED << pc, progVars, rtViews, liveSwapchains, nextHandle,
                    held, iter, frameHist, sessHist, quitEvt, lateCalls,
                    destroyLog, cleanups >>
    /\ UNCHANGED auxVars

\* IDLE -> READY: the runtime wants the application to begin the session.
PostReady == rtState = "IDLE" /\ Post(SessionEvent("READY"), "READY")

\* A begun session is told to stop.
PostStopping == rtState = "RUNNING" /\ Post(SessionEvent("STOPPING"), "STOPPING")

\* IDLE -> EXITING.
PostExiting == rtState = "IDLE" /\ Post(SessionEvent("EXITING"), "EXITING")

\* LOSS_PENDING can follow any state of a live session.
PostLossPending ==
    /\ rtState \in { "IDLE", "READY", "RUNNING", "STOPPING" }
    /\ Post(SessionEvent("LOSS_PENDING"), "LOSS_PENDING")

PostInstanceLoss ==
    /\ rtState \in { "IDLE", "READY", "RUNNING", "STOPPING" }
    /\ Post(OtherEvent("INSTANCE_LOSS_PENDING"), "LOSS_PENDING")

\* SYNCHRONIZED, VISIBLE and FOCUSED are reported while the session runs;
\* the program has no case for them.
PostSynchronized ==
    rtState = "RUNNING" /\ Post(SessionEvent("SYNCHRONIZED"), rtState)

\* An event of a type the program has no case for.
PostOther ==
    /\ rtState \in { "IDLE", "READY", "RUNNING", "STOPPING" }
    /\ Post(OtherEvent("INTERACTION_PROFILE_CHANGED"), rtState)

\* ---------------------------------------------------------------- Cleanup
\* if (vrSwapchains[i].swapchain) SDL_DestroyGPUXRSwapchain(...);
DestroyCall_NoNullTest(i) ==
    << Call("SDL_DestroyGPUXRSwapchain", i, TRUE, SwapchainOf(i)) >>
DestroyCall(i) ==
    IF SwapchainOf(i) # XR_NULL_HANDLE
    THEN << Call("SDL_DestroyGPUXRSwapchain", i, TRUE, SwapchainOf(i)) >>
    ELSE << >>

\* The swapchain destroy calls of Cleanup, from view i on.
RECURSIVE DestroyCalls(_)
DestroyCalls(i) ==
    IF vrSwapchains.null \/ i >= viewCount THEN << >>
    ELSE DestroyCall(i) \o DestroyCalls(i + 1)

\* The destroy calls of Cleanup with the session destroyed before the space.
CleanupCalls_SessionFirst ==
    DestroyCalls(0)
    \o (IF xrSession /\ xrFunctionsLoaded
        THEN << Call("xrDestroySession", -1, TRUE, 0) >> ELSE << >>)
    \o (IF xrLocalSpace /\ xrFunctionsLoaded
        THEN << Call("xrDestroySpace", -1, TRUE, 0) >> ELSE << >>)
    \o (IF gpuDevice
        THEN << Call("SDL_DestroyGPUDevice", -1, TRUE, 0) >> ELSE << >>)
\* The calls of Cleanup with a running session ended before it is destroyed.
CleanupCalls_EndsSession ==
    DestroyCalls(0)
    \o (IF xrSessionRunning
        THEN << Call("xrEndSession", -1, TRUE, 0) >> ELSE << >>)
    \o (IF xrLocalSpace /\ xrFunctionsLoaded
        THEN << Call("xrDestroySpace", -1, TRUE, 0) >> ELSE << >>)
    \o (IF xrSession /\ xrFunctionsLoaded
        THEN << Call("xrDestroySession", -1, TRUE, 0) >> ELSE << >>)
    \o (IF gpuDevice
        THEN << Call("SDL_DestroyGPUDevice", -1, TRUE, 0) >> ELSE << >>)
\* All destroy calls of Cleanup, in order.
CleanupCalls ==
    DestroyCalls(0)
    \o (IF xrLocalSpace /\ xrFunctionsLoaded
        THEN << Call("xrDestroySpace", -1, TRUE, 0) >> ELSE << >>)
    \o (IF xrSession /\ xrFunctionsLoaded
        THEN << Call("xrDestroySession", -1, TRUE, 0) >> ELSE << >>)
    \o (IF gpuDevice
        THEN << Call("SDL_DestroyGPUDevice", -1, TRUE, 0) >> ELSE << >>)

\* Cleanup(): release the GPU objects, destroy the swapchains the pool
\* holds, the reference space, the session and the device.
Cleanup ==
    /\ pipeline' = FALSE /\ vertexBuffer' = FALSE /\ indexBuffer' = FALSE
    /\ destroyLog' = destroyLog \o CleanupCalls
    /\ liveSwapchains' = liveSwapchains \
           { c.arg : c \in { CleanupCalls[k] : k \in 1..Len(CleanupCalls) } }
    /\ cleanups' = cleanups + 1
    /\ UNCHANGED << gpuDevice, xrFunctionsLoaded, xrSession, xrLocalSpace,
                    xrSessionRunning, xrShouldQuit, vrSwapchains, viewCount,
                    animTime >>

\* ------------------------------------------------------------------- main
\* return value of main when it leaves through the loop
LoopExitCode == 0

\* SDL_CreateGPUDeviceWithProperties; on failure SDL_Quit and return 1.
CreateGPUDevice ==
    /\ pc = "CreateGPUDevice"
    /\ \E ok \in BOOLEAN :
         IF ok THEN /\ gpuDevice' = TRUE /\ pc' = "LoadXRFunctions"
                    /\ UNCHANGED exitCode
               ELSE /\ exitCode' = 1 /\ pc' = "Done"
                    /\ UNCHANGED gpuDevice
    /\ UNCHANGED << xrFunctionsLoaded, xrSession, xrLocalSpace, xrSessionRunning,
                    xrShouldQuit, poolVars, animTime, rtVars, iter, frameHist,
                    sessHist, quitEvt, lateCalls, destroyLog, cleanups >>
    /\ UNCHANGED auxVars

\* LoadXRFunctions; a failure may leave the destroy functions loaded or not.
LoadXRFunctions ==
    /\ pc = "LoadXRFunctions"
    /\ \E ok \in BOOLEAN, partial \in BOOLEAN :
         /\ xrFunctionsLoaded' = (ok \/ partial)
         /\ pc' = IF ok THEN "InitXRSession" ELSE "FailExit"
    /\ UNCHANGED << gpuDevice, xrSession, xrLocalSpace, xrSessionRunning,
                    xrShouldQuit, poolVars, animTime, exitCode, rtVars, iter,
                    frameHist, sessHist, quitEvt, lateCalls, destroyLog,
                    cleanups >>
    /\ UNCHANGED auxVars

\* InitXRSession: create the session, then the reference space.
InitXRSession ==
    /\ pc = "InitXRSession"
    /\ \E sessionOk \in BOOLEAN, spaceOk \in BOOLEAN :
         /\ xrSession' = sessionOk
         /\ xrLocalSpace' = (sessionOk /\ spaceOk)
         /\ rtState' = IF sessionOk THEN "IDLE" ELSE rtState
         /\ pc' = IF sessionOk /\ spaceOk THEN "LoopTest" ELSE "FailExit"
    /\ UNCHANGED << gpuDevice, xrFunctionsLoaded, xrSessionRunning, xrShouldQuit,
                    poolVars, animTime, exitCode, rtViews, evQueue,
                    nPosted, liveSwapchains, nextHandle, held, iter, frameHist,
                    sessHist, quitEvt, lateCalls, destroyLog, cleanups >>
    /\ UNCHANGED auxVars

\* Cleanup(); return 1;  after a failed LoadXRFunctions or InitXRSession.
FailExit ==
    /\ pc = "FailExit"
    /\ Cleanup
    /\ exitCode' = 1
    /\ pc' = "Done"
    /\ UNCHANGED << rtState, rtViews, evQueue, nPosted, nextHandle, held,
                    iter, frameHist, sessHist, quitEvt, lateCalls >>
    /\ UNCHANGED auxVars

\* The record of the iteration that starts: no call made yet, and the count
\* of the ticks in a row, up to the last one, that stopped at a failed
\* xrWaitFrame.
NextTick ==
    [ NoTick EXCEPT !.streak = IF WaitFailed(tick) THEN tick.streak + 1 ELSE 0 ]

\* while (!xrShouldQuit)
LoopCondition_Forever == TRUE
LoopCondition == ~xrShouldQuit

\* Cleanup(); return 0;  after the loop.
LoopExit_NoCleanup ==
    /\ exitCode' = LoopExitCode
    /\ pc' = "Done"
    /\ UNCHANGED << gpuDevice, xrFunctionsLoaded, xrSession, xrLocalSpace,
                    xrSessionRunning, xrShouldQuit, poolVars, animTime,
                    liveSwapchains, destroyLog, cleanups >>
    /\ UNCHANGED << rtState, rtViews, evQueue, nPosted, nextHandle, held,
                    iter, frameHist, sessHist, quitEvt, lateCalls >>
LoopExit ==
    /\ Cleanup
    /\ exitCode' = LoopExitCode
    /\ pc' = "Done"
    /\ UNCHANGED << rtState, rtViews, evQueue, nPosted, nextHandle, held,
                    iter, frameHist, sessHist, quitEvt, lateCalls >>

\* The test at the head of each iteration: the loop is left for Cleanup and
\* the return, or the next iteration starts.
LoopTest ==
    /\ pc = "LoopTest"
    /\ IF ~LoopCondition
       THEN LoopExit
       ELSE /\ iter < MaxIter /\ iter' = iter + 1 /\ pc' = "SDLPoll"
            /\ tick' = NextTick
            /\ UNCHANGED << progVars, rtVars, openFrames, sessHist,
                            quitEvt, lateCalls, destroyLog, cleanups >>
    /\ UNCHANGED auxVars

\* The SDL event drain: a window quit event sets the quit flag.
SDLPoll ==
    /\ pc = "SDLPoll"
    /\ \E quit \in BOOLEAN : xrShouldQuit' = (xrShouldQuit \/ quit)
    /\ pc' = "HandleXREvents"
    /\ UNCHANGED << gpuDevice, xrFunctionsLoaded, xrSession, xrLocalSpace,
                    xrSessionRunning, poolVars, animTime, exitCode, rtVars, iter,
                    frameHist, sessHist, quitEvt, lateCalls, destroyLog,
                    cleanups >>
    /\ UNCHANGED auxVars

Next ==
    \/ CreateGPUDevice \/ LoadXRFunctions \/ InitXRSession \/ FailExit
    \/ LoopTest \/ SDLPoll
    \/ PollEmpty \/ HandleReady \/ HandleStopping \/ HandleQuitEvent
    \/ HandleIgnored
    \/ RenderFrame
    \/ PostReady \/ PostStopping \/ PostExiting \/ PostLossPending
    \/ PostInstanceLoss \/ PostSynchronized \/ PostOther

Spec == Init /\ [][Next]_vars

\* The steps of the program: main and the handlers it calls.
ProgramStep ==
    \/ CreateGPUDevice \/ LoadXRFunctions \/ InitXRSession \/ FailExit
    \/ LoopTest \/ SDLPoll
    \/ PollEmpty \/ HandleReady \/ HandleStopping \/ HandleQuitEvent
    \/ HandleIgnored
    \/ RenderFrame

\* Every call the program makes returns, so the program keeps taking steps;
\* the compositor is under no obligation to post events.
FairSpec == Spec /\ WF_vars(ProgramStep)


\* The caller of the input layer creates the state, syncs it and destroys it.
InputNext == InputCreate \/ InputSync \/ InputSyncNull \/ InputDestroy
InputSpecInit ==
    MainInit /\ rtViews = 1 /\ InputInit /\ PoseIdle /\ MathIdle /\ BindIdle
InputSpec == InputSpecInit /\ [][InputNext]_vars

\* One XR_Input_LocatePose call for every combination of arguments and results.
PoseNext == PoseLocate
PoseSpecInit ==
    MainInit /\ rtViews = 1 /\ InputInit /\ PoseInit /\ MathIdle /\ BindIdle
PoseSpec == PoseSpecInit /\ [][PoseNext]_vars

\* One call of a matrix function for every argument.
MathNext == ApplyModelMatrix \/ ApplyFromXrPose \/ ApplyProjection
MathSpecInit ==
    MainInit /\ rtViews = 1 /\ InputInit /\ PoseIdle /\ MathInit /\ BindIdle
MathSpec == MathSpecInit /\ [][MathNext]_vars

\* One SuggestBindingsForProfile call for every entry of g_profiles.
BindNext == BindGetProfilePath \/ BindBlock \/ BindSuggest
BindSpecInit ==
    MainInit /\ rtViews = 1 /\ InputInit /\ PoseIdle /\ MathIdle /\ BindInit
BindSpec == BindSpecInit /\ [][BindNext]_vars

\* ================================================================ claims

LastSessionCall == IF sessLog = << >> THEN "none" ELSE sessLog[Len(sessLog)]
TickHas(op, ok) ==
    \E k \in 1..Len(tick.calls) : tick.calls[k].op = op /\ tick.calls[k].ok = ok

\* C1: in every tick in which xrBeginFrame succeeded, xrEndFrame is called
\* exactly once, as the last call of the tick, whatever branch was taken; a
\* tick without a successful xrBeginFrame calls no xrEndFrame; over the run
\* the number of xrEndFrame calls equals the number of successful
\* xrBeginFrame calls at every tick boundary.
C1_EndFramePairsBeginFrame ==
    /\ Count(tick.calls, IsEndFrame) = Count(tick.calls, IsBeginFrameOk)
    /\ Count(tick.calls, IsEndFrame) <= 1
    /\ Count(tick.calls, IsBeginFrameOk) = 1
         => tick.calls[Len(tick.calls)].op = "xrEndFrame"
    /\ openFrames = 0

\* C1 witness: the second rendering tick of the run, whose xrLocateViews
\* failed and that still ended with xrEndFrame.
C1_Witness ==
    /\ TickHas("xrLocateViews", FALSE)
    /\ TickHas("xrEndFrame", TRUE)
    /\ animTime >= 2

\* C2: in every tick and for every view, the successful acquires of the
\* view's swapchain image equal the releases issued for it, also when the
\* image wait failed, and no image is held when the tick returns.
C2_AcquireReleasePaired ==
    /\ \A i \in 0..(MaxViews - 1) :
          Count(tick.calls, LAMBDA c : c.op = "xrAcquireSwapchainImage"
                                        /\ c.view = i /\ c.ok)
          = Count(tick.calls, LAMBDA c : c.op = "xrReleaseSwapchainImage"
                                          /\ c.view = i)
    /\ held = {}

\* C2 witness: a tick in which an image wait failed and the image was
\* released, while another view was rendered.
C2_Witness ==
    /\ TickHas("xrWaitSwapchainImage", FALSE)
    /\ TickHas("xrReleaseSwapchainImage", TRUE)
    /\ TickHas("SDL_EndGPURenderPass", TRUE)

\* C3: over the event sequences the compositor's session lifecycle allows,
\* xrBeginSession is never called twice without an xrEndSession between.
C3_NoBeginTwice ==
    \A k \in 1..(Len(sessLog) - 1) :
        ~(sessLog[k] = "begin" /\ sessLog[k + 1] = "begin")

\* C3 witness: the session was begun, ended and begun again.
C3_Witness ==
    /\ Len(sessLog) >= 3
    /\ sessLog[1] = "begin" /\ sessLog[2] = "end" /\ sessLog[3] = "begin"

\* C4: a RenderFrame call made while the running flag is false issues no
\* call at all; the running flag is false before the first xrBeginSession,
\* after a failed xrBeginSession and after every stopping event until the
\* next successful xrBeginSession.
C4_NoFrameCallsUnlessRunning ==
    /\ ~tick.running => tick.calls = << >>
    /\ ( \/ LastSessionCall = "none"
         \/ LastSessionCall = "end"
         \/ LastSessionCall = "begin" /\ ~lastReady.beginOk )
       => ~xrSessionRunning

\* C4 witness: RenderFrame has just returned in an iteration that follows a
\* stopping event, after a tick rendered earlier in the run.
C4_Witness ==
    /\ pc = "LoopTest" /\ tick.iter = iter /\ iter >= 2
    /\ ~tick.running /\ tick.calls = << >>
    /\ LastSessionCall = "end"
    /\ animTime >= 1

\* C5 (as claimed): once CreateSwapchains has failed at some view, every
\* swapchain handle that call created is destroyed and the pool is not
\* usable by RenderFrame.
C5_NoPartialPool ==
    lastCreate.failedView >= 0 =>
        /\ lastCreate.made \cap liveSwapchains = {}
        /\ ~(viewCount > 0 /\ ~vrSwapchains.null)

\* C6 (as claimed): when pool creation failed in the session-ready handler
\* the running flag has the value it had before the event, and every later
\* RenderFrame call issues no call.
C6_RunningRestored ==
    lastReady.poolFailed =>
        /\ lastReady.after = lastReady.before
        /\ tick.calls = << >>

\* C7 (as claimed): after an exiting, loss-pending or instance-loss-pending
\* event has been handled the quit flag is set and no compositor call
\* other than those of Cleanup is made.
C7_NoCallsAfterQuitEvent ==
    quitEvt.seen => (xrShouldQuit /\ lateCalls = {})

\* C7 (amended): after such an event has been handled the quit flag is set
\* and stays set, and no further main-loop iteration starts: the calls made
\* afterwards, other than Cleanup's, all belong to the iteration in which
\* the event was handled.
C7_QuitEventEndsLoop ==
    quitEvt.seen => (xrShouldQuit /\ iter = quitEvt.iter)

\* C7 witness: the program has finished after a quit event that was
\* followed, in the same iteration, by frame calls.
C7_Witness ==
    /\ quitEvt.seen /\ pc = "Done"
    /\ "xrWaitFrame" \in lateCalls /\ "xrPollEvent" \in lateCalls

\* C8 (as claimed): over any event sequence CreateSwapchains creates
\* compositor swapchains at most once.
C8_PoolCreatedOnce == nPoolCreations <= 1

\* C9 (as claimed): when the program has ended after the swapchain-pool
\* creation failed, Cleanup has run and the exit code is not zero.
C9_FatalExitNonZero ==
    (pc = "Done" /\ lastReady.poolFailed) => (cleanups = 1 /\ exitCode # 0)

\* C10 (as claimed): the layer submitted by a rendered tick declares as
\* many view entries as views completed acquire, wait and release.
C10_LayerHasOnlyPopulatedViews ==
    tick.layerCount = 1 => tick.layerViewCount = Cardinality(tick.populated)

\* The calls of the tick that concern view i, draw calls left out, as
\* pairs of call and result.
ViewTrace(i) ==
    LET sub == SelectSeq(tick.calls,
                         LAMBDA c : c.view = i
                                    /\ c.op # "SDL_DrawGPUIndexedPrimitives")
    IN  [ k \in 1..Len(sub) |-> << sub[k].op, sub[k].ok >> ]

\* The positions in the tick of the calls op for view i.
Positions(op, i) ==
    { k \in 1..Len(tick.calls) : tick.calls[k].op = op /\ tick.calls[k].view = i }

\* C11: for each view of a rendered tick the calls are, in this order,
\* acquire, wait, render pass begin, the draws, render pass end, release;
\* after a failed acquire the view gets no other call, after a failed wait
\* it gets the release and no render call, and in both cases the views
\* after it are still processed.
C11_PerViewOrder ==
    /\ \A i \in 0..(MaxViews - 1) :
         /\ ViewTrace(i) \in
              { << >>,
                << << "xrAcquireSwapchainImage", FALSE >> >>,
                << << "xrAcquireSwapchainImage", TRUE >>,
                   << "xrWaitSwapchainImage", FALSE >>,
                   << "xrReleaseSwapchainImage", TRUE >> >>,
                << << "xrAcquireSwapchainImage", TRUE >>,
                   << "xrWaitSwapchainImage", TRUE >>,
                   << "SDL_BeginGPURenderPass", TRUE >>,
                   << "SDL_EndGPURenderPass", TRUE >>,
                   << "xrReleaseSwapchainImage", TRUE >> >> }
         /\ \A d \in Positions("SDL_DrawGPUIndexedPrimitives", i) :
              /\ \E b \in Positions("SDL_BeginGPURenderPass", i) : b < d
              /\ \E e \in Positions("SDL_EndGPURenderPass", i) : d < e
    /\ TickHas("SDL_SubmitGPUCommandBuffer", TRUE) =>
         \A i \in 0..(viewCount - 1) :
            Positions("xrAcquireSwapchainImage", i) # {}

\* C11 witness: a tick in which the acquire of view 0 failed and view 1
\* was drawn and released.
C11_Witness ==
    /\ ViewTrace(0) = << << "xrAcquireSwapchainImage", FALSE >> >>
    /\ Len(ViewTrace(1)) = 5
    /\ Positions("SDL_DrawGPUIndexedPrimitives", 1) # {}

\* A RenderFrame step, and the two flags left as they were by a step.
FrameStep == pc = "RenderFrame" /\ pc' = "LoopTest"
FlagsKept == xrSessionRunning' = xrSessionRunning /\ xrShouldQuit' = xrShouldQuit

\* C12: a tick whose xrWaitFrame fails makes no other call, a tick whose
\* xrBeginFrame fails makes no call after it (no view-locate, acquire or
\* end-frame), and neither changes the running or the quit flag; every tick
\* of a running session starts at xrWaitFrame, however many ticks failed
\* before it, and when wait-frame and begin-frame succeed it runs through to
\* xrEndFrame.
C12_FailedTickAborts ==
    [][ FrameStep =>
          /\ tick'.running => tick'.calls[1].op = "xrWaitFrame"
          /\ WaitFailed(tick') =>
                (Len(tick'.calls) = 1 /\ FlagsKept)
          /\ (\E k \in 1..Len(tick'.calls) :
                 tick'.calls[k].op = "xrBeginFrame" /\ ~tick'.calls[k].ok) =>
                (/\ Len(tick'.calls) = 2
                 /\ tick'.calls[1] = Call("xrWaitFrame", -1, TRUE, iter)
                 /\ FlagsKept)
          /\ (\E k \in 1..Len(tick'.calls) :
                 tick'.calls[k].op = "xrBeginFrame" /\ tick'.calls[k].ok) =>
                tick'.calls[Len(tick'.calls)].op = "xrEndFrame" ]_vars

\* C12 witness: three ticks in a row stopped at a failed xrWaitFrame and the
\* fourth ran the whole protocol, rendering a view.
C12_Witness ==
    /\ tick.streak = 3
    /\ TickHas("xrBeginFrame", TRUE)
    /\ TickHas("SDL_EndGPURenderPass", TRUE)
    /\ TickHas("xrEndFrame", TRUE)

\* C13: a tick whose xrLocateViews failed issues no swapchain acquire and
\* still calls xrEndFrame, with zero composition layers.
C13_LocateFailureEndsFrameEmpty ==
    TickHas("xrLocateViews", FALSE) =>
        /\ "xrAcquireSwapchainImage" \notin Ops(tick.calls)
        /\ "SDL_AcquireGPUCommandBuffer" \notin Ops(tick.calls)
        /\ TickHas("xrEndFrame", TRUE)
        /\ tick.layerCount = 0

\* C13 witness: xrLocateViews failed in a tick with a complete pool of two
\* swapchains, and the frame was ended.
C13_Witness ==
    /\ TickHas("xrLocateViews", FALSE)
    /\ tick.layerCount = 0
    /\ TickHas("xrEndFrame", TRUE)
    /\ viewCount = 2 /\ ~vrSwapchains.null
    /\ \A i \in 0..1 : SwapchainOf(i) \in liveSwapchains

\* C14: a tick that passed xrBeginFrame with should-render false, with a
\* view count of zero or without a swapchain pool issues no xrLocateViews
\* and no acquire and calls xrEndFrame with layer count zero.
C14_SkippedTickEndsFrameEmpty ==
    ( /\ TickHas("xrBeginFrame", TRUE)
      /\ (~tick.shouldRender \/ viewCount = 0 \/ vrSwapchains.null) )
    => /\ "xrLocateViews" \notin Ops(tick.calls)
       /\ "xrAcquireSwapchainImage" \notin Ops(tick.calls)
       /\ TickHas("xrEndFrame", TRUE)
       /\ tick.layerCount = 0

\* C14 witness: the compositor asked for rendering but the program has no
\* pool and no views, and the frame was ended empty.
C14_Witness ==
    /\ tick.shouldRender /\ vrSwapchains.null /\ viewCount = 0
    /\ Len(tick.calls) = 3
    /\ tick.calls[3].op = "xrEndFrame"

\* The step that handles a polled session-ready event, and the one that
\* handles a polled stopping event.
ReadyStep ==
    /\ pc = "HandleXREvents" /\ evQueue # << >>
    /\ IsReadyEvent(Head(evQueue)) /\ evQueue' = Tail(evQueue)
StoppingStep ==
    /\ pc = "HandleXREvents" /\ evQueue # << >>
    /\ IsStoppingEvent(Head(evQueue)) /\ evQueue' = Tail(evQueue)

\* C15: on a session-ready event xrBeginSession is called; if it succeeds
\* the running flag becomes true, CreateSwapchains runs and the quit flag is
\* set exactly when it was set before or CreateSwapchains failed; if it fails
\* the running flag stays false, no swapchain is created, the pool is left
\* alone and the quit flag keeps its value.
C15_ReadyHandler ==
    [][ ReadyStep =>
          /\ sessLog' = Append(sessLog, "begin")
          /\ IF lastReady'.beginOk
             THEN /\ xrSessionRunning'
                  /\ lastCreate'.ret \in { 0, 1 }
                  /\ lastReady'.poolFailed = (lastCreate'.ret # 0)
                  /\ xrShouldQuit' = (xrShouldQuit \/ lastCreate'.ret # 0)
             ELSE /\ ~xrSessionRunning /\ ~xrSessionRunning'
                  /\ UNCHANGED << vrSwapchains, viewCount, liveSwapchains,
                                  nPoolCreations, lastCreate >>
                  /\ xrShouldQuit' = xrShouldQuit ]_vars

\* C15 witness: the session was begun, swapchain creation failed at the
\* second view and the quit flag is set for that reason alone.
C15_Witness ==
    /\ pc = "HandleXREvents"
    /\ lastReady.beginOk /\ lastReady.poolFailed /\ tick.calls = << >>
    /\ lastCreate.failedView = 1
    /\ xrSessionRunning /\ xrShouldQuit /\ ~quitEvt.seen

\* C16: on a stopping event xrEndSession is called and the running flag is
\* cleared, while the swapchain pool, the live swapchains, the view count
\* and the quit flag are left as they are; a swapchain is destroyed only by
\* a step that runs Cleanup.
C16_StoppingHandler ==
    [][ /\ StoppingStep =>
            /\ sessLog' = Append(sessLog, "end")
            /\ ~xrSessionRunning'
            /\ UNCHANGED << vrSwapchains, viewCount, liveSwapchains,
                            xrShouldQuit, pipeline >>
        /\ ~(liveSwapchains \subseteq liveSwapchains') =>
            cleanups' = cleanups + 1 ]_vars

\* C16 witness: the session was stopped after a frame was rendered and the
\* pool still holds its live swapchains.
C16_Witness ==
    /\ LastSessionCall = "end" /\ ~xrSessionRunning
    /\ ~vrSwapchains.null /\ viewCount = 2
    /\ \A i \in 0..1 : SwapchainOf(i) \in liveSwapchains
    /\ animTime >= 1 /\ cleanups = 0

\* C17: no RenderFrame call changes the quit flag or the running flag,
\* whatever fails in it; the quit flag is set only by the window quit event,
\* by an exiting or loss-pending event, and by a session-ready event whose
\* swapchain-pool creation failed.
C17_OnlyPoolFailureIsFatal ==
    [][ /\ FrameStep => FlagsKept
        /\ (~xrShouldQuit /\ xrShouldQuit') =>
              \/ pc = "SDLPoll"
              \/ /\ pc = "HandleXREvents" /\ evQueue # << >>
                 /\ \/ IsQuitEvent(Head(evQueue))
                    \/ IsReadyEvent(Head(evQueue)) /\ lastReady'.poolFailed
      ]_vars

\* C17 witness: RenderFrame has just returned from a tick in which one
\* view's acquire and another view's wait failed; the session still runs
\* and the quit flag is clear.
C17_Witness ==
    /\ pc = "LoopTest"
    /\ TickHas("xrAcquireSwapchainImage", FALSE)
    /\ TickHas("xrWaitSwapchainImage", FALSE)
    /\ xrSessionRunning /\ ~xrShouldQuit

\* C18 (as claimed): in every tick, the release of a rendered view's image
\* follows the end of that view's render pass and the submission of the
\* command buffer.
C18_ReleaseAfterSubmit ==
    \A i \in 0..(MaxViews - 1) :
        Positions("SDL_EndGPURenderPass", i) # {} =>
            \A r \in Positions("xrReleaseSwapchainImage", i) :
                /\ \A e \in Positions("SDL_EndGPURenderPass", i) : e < r
                /\ \E sub \in Positions("SDL_SubmitGPUCommandBuffer", -1) : sub < r

\* C19 (as claimed): in a tick whose xrLocateViews succeeded but reported
\* the views as not locatable (validity flags not set), no image is
\* acquired for them and they get no composition-layer entry.
C19_UnlocatableViewSkipped ==
    (TickHas("xrLocateViews", TRUE) /\ ~tick.viewStateValid) =>
        /\ "xrAcquireSwapchainImage" \notin Ops(tick.calls)
        /\ tick.populated = {}

\* C20: the quit flag is acted on only at the head of the loop: once it is
\* set no further iteration starts and the iteration in progress runs on to
\* its end, and eventually Cleanup has run and main has returned.
C20_QuitAtBoundary ==
    /\ [][ /\ xrShouldQuit => iter' = iter
           /\ (xrShouldQuit /\ pc \in { "SDLPoll", "HandleXREvents", "RenderFrame" })
                => pc' \in { "SDLPoll", "HandleXREvents", "RenderFrame", "LoopTest" }
           /\ (xrShouldQuit /\ pc = "LoopTest") => pc' \in { "LoopTest", "Done" }
         ]_vars
    /\ (xrShouldQuit ~> (pc = "Done" /\ cleanups = 1))

\* C20 witness: the quit flag was raised in the middle of an iteration by a
\* failed pool creation, RenderFrame still ran in that iteration and issued
\* calls, and then Cleanup ran and main returned.
C20_Witness ==
    /\ pc = "Done" /\ cleanups = 1 /\ xrShouldQuit
    /\ lastReady.poolFailed /\ ~quitEvt.seen
    /\ tick.iter = iter /\ tick.calls # << >>

\* The step that handles a polled event the program has no case for.
IgnoredStep ==
    /\ pc = "HandleXREvents" /\ evQueue # << >>
    /\ ~IsReadyEvent(Head(evQueue)) /\ ~IsStoppingEvent(Head(evQueue))
    /\ ~IsQuitEvent(Head(evQueue))
    /\ evQueue' = Tail(evQueue)

C22_SpaceWithinSession ==
    /\ xrLocalSpace => xrSession
    /\ pc \notin { "CreateGPUDevice", "LoadXRFunctions", "InitXRSession" }
         \/ (~xrSession /\ ~xrLocalSpace)
    /\ Count(destroyLog, LAMBDA c : c.op = "xrDestroySpace") <= 1
    /\ Count(destroyLog, LAMBDA c : c.op = "xrDestroySession") <= 1
    /\ "xrDestroySpace" \in Ops(destroyLog) => xrLocalSpace
    /\ "xrDestroySession" \in Ops(destroyLog) => xrSession
    /\ \A j, k \in 1..Len(destroyLog) :
          (destroyLog[j].op = "xrDestroySpace"
             /\ destroyLog[k].op = "xrDestroySession") => j < k
    /\ (pc = "Done" /\ cleanups = 1 /\ xrFunctionsLoaded) =>
          /\ xrLocalSpace => "xrDestroySpace" \in Ops(destroyLog)
          /\ xrSession => "xrDestroySession" \in Ops(destroyLog)

\* C22 witness: main has returned after Cleanup destroyed the space and
\* then the session.
C22_Witness ==
    /\ pc = "Done" /\ cleanups = 1
    /\ "xrDestroySpace" \in Ops(destroyLog)
    /\ "xrDestroySession" \in Ops(destroyLog)

\* The handles passed to SDL_DestroyGPUXRSwapchain, in order.
SwapchainDestroys ==
    SelectSeq(destroyLog, LAMBDA c : c.op = "SDL_DestroyGPUXRSwapchain")

\* C23: after Cleanup, the swapchain destroy calls it issued are exactly the
\* non-null handles of the pool, one call each in view order, none on the
\* null handle; without a pool there is no swapchain destroy call.
C23_CleanupPartialPool ==
    cleanups = 1 =>
        /\ \A k \in 1..Len(SwapchainDestroys) :
              SwapchainDestroys[k].arg # XR_NULL_HANDLE
        /\ \A j, k \in 1..Len(SwapchainDestroys) :
              j < k => /\ SwapchainDestroys[j].arg # SwapchainDestroys[k].arg
                       /\ SwapchainDestroys[j].view < SwapchainDestroys[k].view
        /\ { SwapchainDestroys[k].arg : k \in 1..Len(SwapchainDestroys) }
             = IF vrSwapchains.null THEN {}
               ELSE { SwapchainOf(i) : i \in 0..(viewCount - 1) }
                      \ { XR_NULL_HANDLE }
        /\ vrSwapchains.null => SwapchainDestroys = << >>

\* C23 witness: Cleanup ran on a pool of two views of which only the first
\* obtained a swapchain, and issued one swapchain destroy call.
C23_Witness ==
    /\ cleanups = 1 /\ ~vrSwapchains.null /\ viewCount = 2
    /\ SwapchainOf(0) # XR_NULL_HANDLE /\ SwapchainOf(1) = XR_NULL_HANDLE
    /\ Len(SwapchainDestroys) = 1
    /\ SwapchainDestroys[1].arg = SwapchainOf(0)

\* ------------------------------------------------- claims on xr_input.c

\* The cached value of button b of hand h after the n-th XR_Input_Sync call
\* on the state; before the first call the arrays are all false.
CachedAt(n, h, b) == IF n < 1 THEN FALSE ELSE syncLog[n].curr[h][b]

\* C24: while the caller holds a state, for every hand and button
\* XR_Input_GetButtonDown is true exactly when the cached value was true at
\* the most recent XR_Input_Sync and false at the sync before it, and
\* XR_Input_GetButtonUp exactly in the mirrored case; so a button that two
\* consecutive successful syncs both cached pressed reports no Down, and one
\* that both cached released reports no Up.
C24_EdgeQueries ==
    ~inputState.null =>
        \A h \in Hands, b \in Buttons :
            LET ctl == XR_Input_GetController(inputState, h)
                n == Len(syncLog)
                down == XR_Input_GetButtonDown(inputState, ctl, b)
                up == XR_Input_GetButtonUp(inputState, ctl, b)
            IN  /\ down <=> ( CachedAt(n, h, b) /\ ~CachedAt(n - 1, h, b) )
                /\ up <=> ( ~CachedAt(n, h, b) /\ CachedAt(n - 1, h, b) )
                /\ ( /\ n >= 2 /\ syncLog[n].ret /\ syncLog[n - 1].ret
                     /\ CachedAt(n, h, b) = CachedAt(n - 1, h, b) )
                   => ( ~down /\ ~up )

\* C24 witness: three successful syncs cached button 0 of the left hand
\* pressed, pressed and released; Up is reported now and Down is not.
C24_Witness ==
    /\ ~inputState.null /\ Len(syncLog) = 3
    /\ \A k \in 1..3 : syncLog[k].ret
    /\ CachedAt(1, XR_HAND_LEFT, 0) /\ CachedAt(2, XR_HAND_LEFT, 0)
    /\ ~CachedAt(3, XR_HAND_LEFT, 0)
    /\ XR_Input_GetButtonUp(inputState,
                            XR_Input_GetController(inputState, XR_HAND_LEFT), 0)
    /\ ~XR_Input_GetButtonDown(inputState,
                               XR_Input_GetController(inputState, XR_HAND_LEFT), 0)

\* The most recent XR_Input_Sync call on the state is one whose xrSyncActions
\* failed.
LastSyncFailed(log) == log # << >> /\ ~log[Len(log)].xrOk

\* Every edge query on the state st answers false.
NoEdges(st) ==
    \A h \in Hands, b \in Buttons :
        /\ ~XR_Input_GetButtonDown(st, XR_Input_GetController(st, h), b)
        /\ ~XR_Input_GetButtonUp(st, XR_Input_GetController(st, h), b)

\* C25: an XR_Input_Sync whose xrSyncActions fails returns false and leaves
\* the cached current button values and the controllers' active flags as they
\* were, while the previous-frame values have become the current ones; and
\* as long as the most recent sync is a failed one, GetButtonDown and
\* GetButtonUp are false for every hand and button.
C25_FailedSyncKeepsCache ==
    [][ /\ ( Len(syncLog') = Len(syncLog) + 1 /\ LastSyncFailed(syncLog') )
           => /\ ~syncLog'[Len(syncLog')].ret
              /\ inputState'.currButtons = inputState.currButtons
              /\ \A h \in Hands : inputState'.controllers[h].active
                                    = inputState.controllers[h].active
              /\ inputState'.prevButtons = inputState.currButtons
        /\ ( LastSyncFailed(syncLog') /\ ~inputState'.null )
           => NoEdges(inputState') ]_vars

\* C25 witness: a successful sync cached button 0 of the left hand pressed
\* with the hand active, and the sync after it failed: the button is still
\* cached pressed, the hand still active, and the previous value is pressed.
C25_Witness ==
    /\ ~inputState.null /\ Len(syncLog) = 2
    /\ syncLog[1].ret /\ ~syncLog[2].xrOk /\ ~syncLog[2].ret
    /\ inputState.currButtons[XR_HAND_LEFT][0]
    /\ inputState.prevButtons[XR_HAND_LEFT][0]
    /\ inputState.controllers[XR_HAND_LEFT].active

\* The space the pose type of the call selects on its controller.
SelectedSpace(call) ==
    IF call.poseType \in { XR_POSE_GRIP, XR_POSE_PALM }
    THEN call.controller.c.gripSpace
    ELSE IF call.poseType = XR_POSE_AIM THEN call.controller.c.aimSpace
    ELSE XR_NULL_HANDLE

\* C26: XR_Input_LocatePose returns true only when the controller and the
\* output pointer are non-null, the selected space is non-null, xrLocateSpace
\* succeeded and both the position-valid and the orientation-valid flag are
\* set; whenever it returns false the caller's pose is what it was before
\* the call.
C26_LocatePoseGuards ==
    /\ poseRet = "true" =>
          /\ ~poseCall.controller.null /\ ~poseCall.outPoseNull
          /\ SelectedSpace(poseCall) # XR_NULL_HANDLE
          /\ poseCall.locateOk
          /\ poseCall.positionValid /\ poseCall.orientationValid
    /\ poseRet = "false" => outPose = OldPose

\* C26 witness: a call on a controller with a grip space, for which
\* xrLocateSpace succeeded and reported a valid position but no valid
\* orientation, returned false and left the caller's pose alone.
C26_Witness ==
    /\ poseRet = "false" /\ outPose = OldPose
    /\ ~poseCall.controller.null /\ ~poseCall.outPoseNull
    /\ poseCall.poseType = XR_POSE_GRIP
    /\ SelectedSpace(poseCall) # XR_NULL_HANDLE
    /\ poseCall.locateOk
    /\ poseCall.positionValid /\ ~poseCall.orientationValid

\* C27: XR_Input_Create returns NULL exactly when the state allocation or
\* the action-set creation failed, and then no state object is allocated;
\* in every other case, whatever actions, profile bindings and hand spaces
\* failed, the state it returns has two controllers that each carry their
\* own hand index and point back to that state.
C27_CreateResult ==
    createRet # "none" =>
        /\ createRet = "NULL" <=> ( ~createCall.allocOk \/ ~createCall.actionSetOk )
        /\ createRet = "NULL" => ( inputState.null /\ allocated = 0 )
        /\ ( createRet = "state" /\ ~inputState.null ) =>
              /\ allocated = 1
              /\ \A h \in Hands :
                    /\ inputState.controllers[h].hand = h
                    /\ inputState.controllers[h]._state = StateAddr

\* C27 witness: the action set was created but no button action, no profile
\* binding and no hand space was, and the call returned a state whose right
\* controller carries hand 1 and the back-pointer.
C27_Witness ==
    /\ createRet = "state" /\ ~inputState.null
    /\ createCall.actions = {} /\ createCall.profilesBound = 0
    /\ \A h \in Hands : createCall.spaces[h] = {}
    /\ \A b \in Buttons : inputState.buttonActions[b] = XR_NULL_HANDLE
    /\ \A h \in Hands : /\ inputState.controllers[h].gripSpace = XR_NULL_HANDLE
                        /\ inputState.controllers[h].aimSpace = XR_NULL_HANDLE
    /\ inputState.controllers[XR_HAND_RIGHT].hand = XR_HAND_RIGHT
    /\ inputState.controllers[XR_HAND_RIGHT]._state = StateAddr

\* Arguments outside the valid ranges, and a controller struct that belongs
\* to no state.
BadHands == { -1, XR_HAND_COUNT, XR_HAND_COUNT + 1 }
BadButtons == { XR_BUTTON_COUNT, XR_BUTTON_COUNT + 1 }
OrphanControllers ==
    { ControllerAt([ ZeroController EXCEPT !.hand = h ]) : h \in Hands }

\* The three button queries all answer false.
AllQueriesFalse(st, ctl, button) ==
    /\ ~XR_Input_GetButton(st, ctl, button)
    /\ ~XR_Input_GetButtonDown(st, ctl, button)
    /\ ~XR_Input_GetButtonUp(st, ctl, button)

\* C28: whatever state the caller holds, XR_Input_GetController gives NULL
\* for a null state and for a hand outside {left, right}; the three button
\* queries give false for a null controller, for a controller with no owning
\* state and for a button index at or above XR_BUTTON_COUNT;
\* XR_Input_Sync(NULL) has only ever returned false and left the null state
\* as it was, and XR_Input_GetActionSet(NULL) is the null handle.
C28_InvalidArguments ==
    /\ \A hand \in Hands \cup BadHands :
          XR_Input_GetController(NullState, hand) = NullController
    /\ \A hand \in BadHands :
          XR_Input_GetController(inputState, hand) = NullController
    /\ \A b \in Buttons \cup BadButtons :
          /\ AllQueriesFalse(inputState, NullController, b)
          /\ \A ctl \in OrphanControllers : AllQueriesFalse(inputState, ctl, b)
    /\ \A h \in Hands, b \in BadButtons :
          AllQueriesFalse(inputState, ControllerAt(inputState.controllers[h]), b)
    /\ nullSyncs \subseteq { FALSE }
    /\ inputState.null => inputState = NullState
    /\ XR_Input_GetActionSet(NullState) = XR_NULL_HANDLE

\* C28 witness: XR_Input_Sync(NULL) was called, and the caller now holds a
\* state in which button 0 of the left hand is pressed: the query with the
\* state's own controller answers true, the same query with a controller
\* that has no owning state answers false.
C28_Witness ==
    /\ nullSyncs = { FALSE } /\ ~inputState.null
    /\ XR_Input_GetButton(inputState,
                          XR_Input_GetController(inputState, XR_HAND_LEFT), 0)
    /\ \A ctl \in OrphanControllers : AllQueriesFalse(inputState, ctl, 0)
    /\ AllQueriesFalse(inputState,
                       XR_Input_GetController(inputState, XR_HAND_LEFT),
                       XR_BUTTON_COUNT)

\* ------------------------------------------- claims on the matrix functions

\* C29: for every cube and every pair of rotation angles, elements 12, 13
\* and 14 of the model matrix scale * rotY * rotX * trans are the cube's
\* position, and elements 3, 7, 11 and 15 are 0, 0, 0 and 1: the scale and
\* the rotations do not reach the translation entries.
C29_ModelTranslation ==
    ( mathDone /\ mathCall.fn = "ModelMatrix" ) =>
        LET pos == cubePositions[mathCall.cubeIdx + 1] IN
        /\ mathOut.d > 0
        /\ mathOut.m[13] * pos.d = pos.x * mathOut.d
        /\ mathOut.m[14] * pos.d = pos.y * mathOut.d
        /\ mathOut.m[15] * pos.d = pos.z * mathOut.d
        /\ mathOut.m[16] = mathOut.d

\* C29 witness: the model matrix of cube 0 (scale 1, position (0, 0, -2))
\* was built with rotations that are not multiples of a quarter turn, and its
\* translation entries are (0, 0, -2).
C29_Witness ==
    /\ mathDone /\ mathCall.fn = "ModelMatrix" /\ mathCall.cubeIdx = 0
    /\ mathCall.angY = [ c |-> 3, s |-> 4, d |-> 5 ]
    /\ mathCall.angX = [ c |-> 5, s |-> -12, d |-> 13 ]
    /\ mathOut.m[13] = 0 /\ mathOut.m[14] = 0
    /\ mathOut.m[15] = -2 * mathOut.d
    /\ mathOut.m[1] # mathOut.d

\* The position of the world transform rebuilt from a view matrix v: the
\* rotation of the world transform is the transpose of the view's, and its
\* translation is minus the view's translation carried through that
\* rotation.  The result is over v.d * v.d.
RebuiltPosition(v) ==
    [ x |-> -( v.m[13] * v.m[1] + v.m[14] * v.m[2] + v.m[15] * v.m[3] ),
      y |-> -( v.m[13] * v.m[5] + v.m[14] * v.m[6] + v.m[15] * v.m[7] ),
      z |-> -( v.m[13] * v.m[9] + v.m[14] * v.m[10] + v.m[15] * v.m[11] ) ]

\* The world transform of a pose over n * n, n = QuatNorm2: rows right, up
\* and fwd, and the position in the last row.
WorldTransform(pose) ==
    LET q == pose.orientation
        n == QuatNorm2(q)
    IN  [ m |-> << PoseRight(q).x, PoseRight(q).y, PoseRight(q).z, 0,
                   PoseUp(q).x, PoseUp(q).y, PoseUp(q).z, 0,
                   PoseFwd(q).x, PoseFwd(q).y, PoseFwd(q).z, 0,
                   pose.position.x * n, pose.position.y * n,
                   pose.position.z * n, n >>,
          d |-> n ]

IsIdentity(a) ==
    \A i, j \in 0..3 : a.m[Idx(i, j)] = IF i = j THEN a.d ELSE 0

\* C30: the matrix Mat4_FromXrPose returns for a unit-quaternion pose is the
\* inverse of the pose's world transform: the position rebuilt from it is
\* the pose's position, its product with the world transform on either side
\* is the identity, and for the identity orientation its translation entries
\* are the negated position.
C30_ViewInverse ==
    ( mathDone /\ mathCall.fn = "Mat4_FromXrPose" ) =>
        LET pose == mathCall.pose
            n == QuatNorm2(pose.orientation)
            back == RebuiltPosition(mathOut)
        IN  /\ mathOut.d = n
            /\ back.x = pose.position.x * n * n
            /\ back.y = pose.position.y * n * n
            /\ back.z = pose.position.z * n * n
            /\ IsIdentity(Mat4_Multiply(WorldTransform(pose), mathOut))
            /\ IsIdentity(Mat4_Multiply(mathOut, WorldTransform(pose)))
            /\ pose.orientation = [ x |-> 0, y |-> 0, z |-> 0, w |-> 1 ]
               => /\ mathOut.m[13] = -pose.position.x
                  /\ mathOut.m[14] = -pose.position.y
                  /\ mathOut.m[15] = -pose.position.z

\* C30 witness: the view matrix of the pose at (1, 2, 3) turned a quarter
\* turn about the y axis (quaternion (0, 1, 0, 1) / sqrt 2): its translation
\* entries are (3, -2, -1) and the rebuilt position is (1, 2, 3).
C30_Witness ==
    /\ mathDone /\ mathCall.fn = "Mat4_FromXrPose"
    /\ mathCall.pose.orientation = [ x |-> 0, y |-> 1, z |-> 0, w |-> 1 ]
    /\ mathCall.pose.position = [ x |-> 1, y |-> 2, z |-> 3 ]
    /\ mathOut.d = 2
    /\ << mathOut.m[13], mathOut.m[14], mathOut.m[15] >> = << 6, -4, -2 >>
    /\ RebuiltPosition(mathOut) = [ x |-> 4, y |-> 8, z |-> 12 ]

\* The angle -a.
NegAngle(a) == [ a EXCEPT !.s = -a.s ]

\* angleLeft = -angleRight and angleUp = -angleDown
SymmetricFov(f) ==
    /\ f.angleLeft = NegAngle(f.angleRight)
    /\ f.angleUp = NegAngle(f.angleDown)

\* C31: for a symmetric field of view the matrix Mat4_Projection returns has
\* both skew terms (elements 8 and 9) equal to zero, and the other
\* off-diagonal entries of its first two rows (elements 1, 2, 3, 4, 6, 7)
\* are zero, while the two diagonal entries are not.
C31_SymmetricProjection ==
    ( mathDone /\ mathCall.fn = "Mat4_Projection" /\ SymmetricFov(mathCall.fov) )
    => /\ mathOut.d # 0
       /\ mathOut.m[9] = 0 /\ mathOut.m[10] = 0
       /\ \A e \in { 2, 3, 4, 5, 7, 8 } : mathOut.m[e] = 0
       /\ mathOut.m[1] # 0 /\ mathOut.m[6] # 0

\* C31 witness: the projection of the symmetric field of view with tangents
\* 3/4 to the sides and 5/12 up and down: no skew, and 2/w = 4/3.
C31_Witness ==
    /\ mathDone /\ mathCall.fn = "Mat4_Projection"
    /\ SymmetricFov(mathCall.fov)
    /\ mathCall.fov.angleRight = [ c |-> 4, s |-> 3, d |-> 5 ]
    /\ mathCall.fov.angleUp = [ c |-> 12, s |-> 5, d |-> 13 ]
    /\ mathOut.m[9] = 0 /\ mathOut.m[10] = 0
    /\ 3 * mathOut.m[1] = 4 * mathOut.d

\* ------------------------------------------------ claims on main.c, again

\* C32: the display time passed to xrLocateViews and the display time passed
\* to xrEndFrame are the predicted display time that the successful
\* xrWaitFrame earlier in the same tick returned, which is the compositor's
\* prediction for this iteration and so the value of no earlier tick.
C32_TimeTokenPerTick ==
    \A k \in 1..Len(tick.calls) :
        tick.calls[k].op \in { "xrLocateViews", "xrEndFrame" } =>
            /\ \E j \in 1..(k - 1) :
                  /\ tick.calls[j].op = "xrWaitFrame" /\ tick.calls[j].ok
                  /\ tick.calls[j].arg = tick.calls[k].arg
            /\ tick.calls[k].arg = iter
            /\ tick.iter = iter

\* C32 witness: the third iteration's tick located the views and ended the
\* frame, both with the time predicted in the third iteration, after an
\* earlier tick had advanced the animation clock.
C32_Witness ==
    /\ iter = 3 /\ animTime = 2
    /\ \E k \in 1..Len(tick.calls) :
          tick.calls[k].op = "xrLocateViews" /\ tick.calls[k].arg = 3
    /\ tick.calls[Len(tick.calls)].op = "xrEndFrame"
    /\ tick.calls[Len(tick.calls)].arg = 3

\* The tick tk entered the render branch: xrBeginFrame succeeded, the frame
\* state said to render, and views and the swapchain pool exist.
EnteredRenderBranch(tk) ==
    /\ \E k \in 1..Len(tk.calls) : IsBeginFrameOk(tk.calls[k])
    /\ tk.shouldRender /\ viewCount > 0 /\ ~vrSwapchains.null

\* C33: a RenderFrame call advances the animation clock by one increment
\* when its tick enters the render branch, whatever xrLocateViews and the
\* swapchain calls then return, and leaves it alone otherwise; no other step
\* changes the clock, which therefore counts the ticks that entered the
\* render branch and never exceeds the number of iterations.
C33_ClockPerRenderTick ==
    [][ /\ pc = "RenderFrame" =>
              animTime' = animTime + (IF EnteredRenderBranch(tick') THEN 1 ELSE 0)
        /\ pc # "RenderFrame" => animTime' = animTime
        /\ animTime' >= 0 /\ animTime' <= iter' ]_vars

\* C33 witness: two ticks entered the render branch, the second one with a
\* failed xrLocateViews, and the clock stands at two increments.
C33_Witness ==
    /\ iter = 2 /\ animTime = 2
    /\ EnteredRenderBranch(tick)
    /\ TickHas("xrLocateViews", FALSE)

\* The positions in the current tick of the calls of one operation.
CallsOf(op) == { k \in 1..Len(tick.calls) : tick.calls[k].op = op }

\* C34: in a tick whose xrLocateViews succeeded there is exactly one
\* SDL_AcquireGPUCommandBuffer call and exactly one
\* SDL_SubmitGPUCommandBuffer call; every call of the view loop lies between
\* the two, and the submit is followed by xrEndFrame alone.  In every other
\* tick there is neither call.
C34_OneCommandBufferPerTick ==
    IF TickHas("xrLocateViews", TRUE)
    THEN /\ Cardinality(CallsOf("SDL_AcquireGPUCommandBuffer")) = 1
         /\ Cardinality(CallsOf("SDL_SubmitGPUCommandBuffer")) = 1
         /\ \A a \in CallsOf("SDL_AcquireGPUCommandBuffer"),
               s \in CallsOf("SDL_SubmitGPUCommandBuffer") :
               /\ a < s
               /\ \A k \in 1..Len(tick.calls) :
                     tick.calls[k].view >= 0 => ( a < k /\ k < s )
               /\ s = Len(tick.calls) - 1
               /\ tick.calls[s + 1].op = "xrEndFrame"
    ELSE /\ CallsOf("SDL_AcquireGPUCommandBuffer") = {}
         /\ CallsOf("SDL_SubmitGPUCommandBuffer") = {}

\* C34 witness: a tick over two views in which xrLocateViews succeeded, the
\* first view's wait failed and the second view's acquire failed: the
\* command buffer was submitted after the first view's release.
C34_Witness ==
    /\ viewCount = 2 /\ TickHas("xrLocateViews", TRUE)
    /\ tick.populated = {}
    /\ TickHas("xrWaitSwapchainImage", FALSE)
    /\ TickHas("xrAcquireSwapchainImage", FALSE)
    /\ \E r \in CallsOf("xrReleaseSwapchainImage"),
          s \in CallsOf("SDL_SubmitGPUCommandBuffer") : r < s

\* The swapchain handles the CreateSwapchains calls of the run created.
HandlesCreated == 1..(nextHandle - 1)

\* C35 (as claimed): when Cleanup has returned, every swapchain handle that
\* CreateSwapchains created has been passed to SDL_DestroyGPUXRSwapchain
\* exactly once, whatever events the compositor sent.
C35_EveryHandleDestroyedOnce ==
    ( pc = "Done" /\ cleanups = 1 ) =>
        /\ { SwapchainDestroys[k].arg : k \in 1..Len(SwapchainDestroys) }
             = HandlesCreated
        /\ \A j, k \in 1..Len(SwapchainDestroys) :
              j # k => SwapchainDestroys[j].arg # SwapchainDestroys[k].arg

\* C36: xrEndSession is called only while a polled stopping event is being
\* handled; the step in which main leaves, Cleanup included, calls neither
\* xrBeginSession nor xrEndSession; and when main has left through the loop
\* with the running flag still true, the last session call of the run is an
\* xrBeginSession and Cleanup has destroyed the reference space and then
\* the session.
C36_NoEndSessionAtShutdown ==
    [][ /\ ( Len(sessLog') > Len(sessLog) /\ sessLog'[Len(sessLog')] = "end" )
           => ( /\ pc = "HandleXREvents" /\ evQueue # << >>
                /\ IsStoppingEvent(Head(evQueue)) )
        /\ ( pc # "Done" /\ pc' = "Done" )
           => ( /\ sessLog' = sessLog
                /\ "xrEndSession" \notin Ops(destroyLog') )
        /\ ( pc # "Done" /\ pc' = "Done" /\ cleanups' = 1 /\ xrSessionRunning' )
           => ( /\ LastSessionCall' = "begin"
                /\ \E j, k \in 1..Len(destroyLog') :
                      /\ j < k
                      /\ destroyLog'[j].op = "xrDestroySpace"
                      /\ destroyLog'[k].op = "xrDestroySession" ) ]_vars

\* C36 witness: main has returned after a loss-pending event arrived while
\* the session was running: the running flag is still true, no xrEndSession
\* was ever called, and the space and the session are destroyed.
C36_Witness ==
    /\ pc = "Done" /\ cleanups = 1 /\ xrSessionRunning
    /\ quitEvt.seen /\ sessLog = << "begin" >>
    /\ "xrDestroySession" \in Ops(destroyLog)
    /\ "xrDestroySpace" \in Ops(destroyLog)
    /\ "xrEndSession" \notin Ops(destroyLog)

\* C37: once the GPU device exists, main leaves only through a step that
\* runs Cleanup, for the first and only time: with exit code 1 from the
\* failure exit taken after a failed LoadXRFunctions or InitXRSession,
\* before any iteration, and with exit code 0 from the head of the loop;
\* after main has returned nothing more is called.
C37_CleanupOncePerExit ==
    [][ /\ pc = "FailExit"
           => ( /\ pc' = "Done" /\ iter = 0
                /\ cleanups = 0 /\ cleanups' = 1 /\ exitCode' = 1 )
        /\ ( pc = "LoopTest" /\ pc' = "Done" )
           => ( cleanups = 0 /\ cleanups' = 1 /\ exitCode' = 0 )
        /\ ( pc # "Done" /\ pc' = "Done" /\ gpuDevice' )
           => ( pc \in { "FailExit", "LoopTest" } /\ cleanups' = 1 )
        /\ pc' # "Done" => cleanups' = 0
        /\ pc = "Done" => UNCHANGED mainVars ]_vars

\* C37 witness: InitXRSession created the session but not the reference
\* space; main ran Cleanup once, which destroyed the session, and returned 1.
C37_Witness ==
    /\ pc = "Done" /\ exitCode = 1 /\ cleanups = 1 /\ iter = 0
    /\ gpuDevice /\ xrSession /\ ~xrLocalSpace
    /\ "xrDestroySession" \in Ops(destroyLog)

\* ------------------------------------------- claims on xr_input.c, again

\* C38: while the caller holds a state, whatever XR_Input_Sync calls were
\* made on it, for each hand and button GetButtonDown and GetButtonUp are
\* not both true, GetButtonDown implies GetButton and GetButtonUp implies
\* not GetButton; before the first sync all three are false.
C38_QueryConsistency ==
    ~inputState.null =>
        \A h \in Hands, b \in Buttons :
            LET ctl == XR_Input_GetController(inputState, h)
                pressed == XR_Input_GetButton(inputState, ctl, b)
                down == XR_Input_GetButtonDown(inputState, ctl, b)
                up == XR_Input_GetButtonUp(inputState, ctl, b)
            IN  /\ ~( down /\ up )
                /\ down => pressed
                /\ up => ~pressed
                /\ syncLog = << >> => ( ~pressed /\ ~down /\ ~up )

\* C38 witness: after three syncs, one of them failed, button 0 of the left
\* hand has just been released (Up, not pressed) while button 8 of the right
\* hand has just been pressed (Down, pressed).
C38_Witness ==
    /\ ~inputState.null /\ Len(syncLog) = 3
    /\ \E k \in 1..3 : ~syncLog[k].ret
    /\ LET left == XR_Input_GetController(inputState, XR_HAND_LEFT)
           right == XR_Input_GetController(inputState, XR_HAND_RIGHT)
       IN  /\ XR_Input_GetButtonUp(inputState, left, 0)
           /\ ~XR_Input_GetButton(inputState, left, 0)
           /\ XR_Input_GetButtonDown(inputState, right, XR_BUTTON_COUNT - 1)
           /\ XR_Input_GetButton(inputState, right, XR_BUTTON_COUNT - 1)

\* ------------------------------- claims on SuggestBindingsForProfile

\* The path fields of a ControllerProfile (every field but profile) that are
\* not NULL.
PathFields ==
    { "trigger", "grip", "thumbstick", "trackpad", "buttonA", "buttonB",
      "buttonMenu", "thumbstickClick", "gripPose", "aimPose", "haptic" }
NonNullPathFields(profile) == { f \in PathFields : ~profile[f].null }

\* The slots of the local array written so far.
WrittenSlots == { i \in DOMAIN bindings : bindings[i] # Unwritten }

\* C39: for every entry of g_profiles, twice the number of its non-null path
\* fields is at most 22; during a SuggestBindingsForProfile call on an entry
\* the slots written are those below bindingCount, the write index stays
\* below the capacity of 64 and no write lands outside the array; once both
\* hands are done bindingCount is twice the number of non-null path fields,
\* and the count passed to xrSuggestInteractionProfileBindings is the number
\* of slots written. A call whose profile path the runtime rejects returns
\* before writing or suggesting anything.
C39_BindingCount ==
    /\ \A k \in 1..g_profileCount :
          2 * Cardinality(NonNullPathFields(g_profiles[k])) <= 22
    /\ bindCall.profile # 0 =>
          LET profile == g_profiles[bindCall.profile]
              total == 2 * Cardinality(NonNullPathFields(profile))
          IN  /\ ~bindOverrun
              /\ bindingCount <= total /\ total < BindingsCapacity
              /\ WrittenSlots = 0..(bindingCount - 1)
              /\ ( bindPc = "Loop" /\ bindHand = 2 ) => bindingCount = total
              /\ suggested.made =>
                    /\ bindPc = "Returned"
                    /\ suggested.countSuggestedBindings = total
                    /\ suggested.countSuggestedBindings
                           = Cardinality(WrittenSlots)
              /\ ( bindPc = "Returned" /\ ~suggested.made ) =>
                    /\ profile.profile.str \in bindCall.rejected
                    /\ bindRet = "false" /\ WrittenSlots = {}

\* C39 witness: the call on the Valve Index entry, whose eleven path fields
\* are all set, has returned true after passing 22 bindings, the last slot
\* written being bindings[21].
C39_Witness ==
    /\ bindCall.profile = 2 /\ bindPc = "Returned" /\ bindRet = "true"
    /\ suggested.made /\ suggested.countSuggestedBindings = 22
    /\ bindings[21] # Unwritten /\ bindings[22] = Unwritten

====
